---- MODULE Spec2Model ----
(***************************************************************************)
(* A model of the runtime core of the Phoebe interpreter: the evaluation   *)
(* stack (src/src/stack/mod.rs), the allocator and heap registry           *)
(* (src/src/allocate.rs), the mark-and-sweep collector (src/src/gc/),      *)
(* symbol interning and the environment stack                              *)
(* (src/src/symbol_lookup/mod.rs).                                         *)
(***************************************************************************)
EXTENDS Integers, Sequences, FiniteSets, TLC

VARIABLES
    STACKS,           \* stack key -> Vec<Object>      (stack/mod.rs:19)
    hist,             \* ghost: the last two stack operations of the run
    heap,             \* address -> the object stored there, or Free
    ALLOCED_OBJECTS,  \* the heap registry, a Vec<Object> (allocate.rs:34)
    JUST_ALLOCATED,   \* the mpsc channel to the allocator thread
    regLock,          \* owner of the ALLOCED_OBJECTS mutex
    THE_GC_MARK,      \* the epoch counter              (gc/mod.rs:53)
    GC_THRESHOLD,     \* the adaptive trigger threshold (gc/mod.rs:61)
    gcpc,             \* position of each gc_pass caller
    gcLocal,          \* each caller's local `mark` and the stacks left to mark
    parkToken,        \* the collector thread's park/unpark token
    allocCt,          \* the allocator thread's local `ct`, if it holds one
    SYMBOLS_HEAP,     \* name -> interned symbol        (symbol_lookup/mod.rs:28)
    symLock,          \* owner of the SYMBOLS_HEAP mutex
    ENV_REF_COUNTS,   \* environment -> reference count (symbol_lookup/mod.rs:21)
    ENV_STACK,        \* thread -> its stack of environments
    tpc,              \* position of each evaluating thread
    held,             \* handles each evaluating thread holds in Rust locals
    ghost             \* ghost record: what the claims need to remember

stackVars == <<STACKS, hist>>
gcVars    == <<heap, ALLOCED_OBJECTS, JUST_ALLOCATED, regLock, THE_GC_MARK,
               GC_THRESHOLD, gcpc, gcLocal, parkToken, allocCt>>
envVars   == <<SYMBOLS_HEAP, symLock, ENV_REF_COUNTS, ENV_STACK>>
thrVars   == <<tpc, held>>
vars      == <<stackVars, gcVars, envVars, thrVars, ghost>>

----------------------------------------------------------------------------
(* Bounds of the model. *)

NThreads == 2
MaxOps   == 3
MaxFrame == 2
MaxAddr  == 2
MaxEpoch == 2
MaxDepth == 2

(* Program constants. *)

STACK_CAPACITY == 128
INITIAL_GC_THRESHOLD == 0

Threads == 0 .. (NThreads - 1)

Range(s) == { s[i] : i \in DOMAIN s }
Last(s)  == s[Len(s)]
Front(s) == SubSeq(s, 1, Len(s) - 1)

----------------------------------------------------------------------------
(* Objects.  An Object is a tagged word; the model keeps the tag and the   *)
(* payload apart.                                                          *)

UnsignedInt(n) == [tag |-> "UnsignedInt", val |-> n]
Bool(b)        == [tag |-> "Bool", val |-> b]
nil            == Bool(FALSE)
uninitialized  == [tag |-> "SpecialMarker", val |-> 0]
Pointer(k, a)  == [tag |-> k, val |-> a]
Reference(k, i) == [tag |-> "Reference", val |-> <<k, i>>]

usize_is_type(o) == o.tag = "UnsignedInt"
usize_from_unchecked(o) == o.val

Ok(v)  == [ok |-> TRUE, val |-> v]
Err(e) == [ok |-> FALSE, val |-> e]

StackOverflowError(len, cap) ==
    [error |-> "StackOverflowError", stack_size |-> len, stack_capacity |-> cap]
StackUnderflowError == [error |-> "StackUnderflowError"]
ArgIndexError(n, k) ==
    [error |-> "ArgIndexError", attempted_index |-> n, stack_frame_length |-> k]

----------------------------------------------------------------------------
(* Vec<Object>: its elements and its capacity.  std's push reallocates, to *)
(* twice the capacity, when the vector is full.                            *)

VecWithCapacity(c) == [buf |-> <<>>, cap |-> c]

VecPush(v, x) ==
    [buf |-> Append(v.buf, x),
     cap |-> IF Len(v.buf) = v.cap
             THEN (IF v.cap = 0 THEN 4 ELSE 2 * v.cap)
             ELSE v.cap]

VecPop(v) == [v EXCEPT !.buf = Front(v.buf)]

(* push_to_vec_checked: refuses to push when len = capacity. *)
push_to_vec_checked_unguarded(v, i) ==
    [vec |-> VecPush(v, i), res |-> Ok(Len(v.buf))]

push_to_vec_checked(v, i) ==
    IF Len(v.buf) = v.cap
    THEN [vec |-> v, res |-> Err(StackOverflowError(Len(v.buf), v.cap))]
    ELSE [vec |-> VecPush(v, i), res |-> Ok(Len(v.buf))]

(* push: the reference returned points at the slot just written. *)
push(k, s, obj) ==
    LET r == push_to_vec_checked(s, obj)
    IN  IF r.res.ok THEN [vec |-> r.vec, res |-> Ok(Reference(k, r.res.val))]
                    ELSE r

(* pop: None of Vec::pop becomes StackUnderflowError. *)
pop(s) ==
    IF Len(s.buf) = 0
    THEN [vec |-> s, res |-> Err(StackUnderflowError)]
    ELSE [vec |-> VecPop(s), res |-> Ok(Last(s.buf))]

(* make_stack_frame: each object, then the count; stops at the first      *)
(* overflow, leaving what was pushed.                                     *)
RECURSIVE push_all(_, _)
push_all(s, objs) ==
    IF objs = <<>> THEN [vec |-> s, res |-> Ok(0)]
    ELSE LET r == push_to_vec_checked(s, objs[1])
         IN  IF r.res.ok THEN push_all(r.vec, Tail(objs)) ELSE r

make_stack_frame(s, objs) ==
    LET r == push_all(s, objs)
    IN  IF ~r.res.ok THEN r
        ELSE LET m == push_to_vec_checked(r.vec, UnsignedInt(Len(objs)))
             IN  IF m.res.ok THEN [vec |-> m.vec, res |-> Ok(0)] ELSE m

(* The callers' contract of nth_arg and close_stack_frame_and_return (both *)
(* read the top slot with into_unchecked): a count marker is on top and    *)
(* that many slots lie below it.                                           *)
frame_on_top(s) ==
    /\ Len(s.buf) > 0
    /\ usize_is_type(Last(s.buf))
    /\ usize_from_unchecked(Last(s.buf)) <= Len(s.buf) - 1

nth_arg_off_by_one(k, s, n) ==
    LET n_args == usize_from_unchecked(Last(s.buf))
    IN  IF n > n_args THEN Err(ArgIndexError(n, n_args))
        ELSE Ok(Reference(k, ((Len(s.buf) - 1) - n_args) + n))

nth_arg(k, s, n) ==
    LET n_args == usize_from_unchecked(Last(s.buf))
    IN  IF n >= n_args
        THEN Err(ArgIndexError(n, n_args))
        ELSE LET highest_idx_of_stack_frame == Len(s.buf) - 1
                 lowest_idx_of_stack_frame  == highest_idx_of_stack_frame - n_args
             IN  Ok(Reference(k, lowest_idx_of_stack_frame + n))

RECURSIVE pop_n(_, _)
pop_n(s, n) == IF n = 0 THEN s ELSE pop_n(VecPop(s), n - 1)

close_stack_frame_keeps_marker(s, ret_val) ==
    LET n_args == usize_from_unchecked(Last(s.buf))
    IN  VecPush(pop_n(s, n_args), ret_val)

close_stack_frame_and_return(s, ret_val) ==
    LET n_args == usize_from_unchecked(Last(s.buf))
    IN  VecPush(pop_n(VecPop(s), n_args), ret_val)

(* The slot a reference into a stack points at. *)
deref_slot(stacks, r) == stacks[r.val[1]].buf[r.val[2] + 1]

(* with_stack: a thread's stack is created, with STACK_CAPACITY reserved   *)
(* slots, the first time the thread uses it.                               *)
with_stack(stacks, k) ==
    IF k \in DOMAIN stacks THEN stacks
    ELSE stacks @@ (k :> VecWithCapacity(STACK_CAPACITY))

----------------------------------------------------------------------------
(* The heap.  Every heap object carries its mark (gc_marking); a new       *)
(* object's mark is GcMark::default(), zero.                               *)

Addr == 1 .. MaxAddr
NoOwner == "none"
None == {}
Some(x) == {x}

Free == [kind |-> "free"]

HeapObject_around(v) == [kind |-> "HeapObject", gc_marking |-> 0, val |-> v]
Symbol_new(n)        == [kind |-> "Symbol", gc_marking |-> 0, name |-> n]
Namespace_Heap(tbl, par) ==
    [kind |-> "Namespace", variant |-> "Heap", gc_marking |-> 0,
     table |-> tbl, parent |-> par]
Function_make_lambda(e) ==
    [kind |-> "Function", gc_marking |-> 0, name |-> None,
     arglist |-> nil, body |-> nil, env |-> Some(e)]

PointerTags == {"HeapObject", "Symbol", "Namespace", "Function"}

IsAlloc(h, a) == a \in DOMAIN h /\ h[a].kind # "free"
FreeAddrs(h)  == { a \in DOMAIN h : ~IsAlloc(h, a) }

(* The allocator of the process hands out some free address; the model is  *)
(* symmetric in the addresses, so it takes the lowest.                     *)
alloc_one(h) == { a \in FreeAddrs(h) : \A b \in FreeAddrs(h) : a <= b }

(* The run makes at most one allocation more than there are addresses, so  *)
(* that an address is used again after its object was swept.               *)
AllocBudget == ghost.allocs < MaxAddr

(* Evaluating threads are interchangeable: the run numbers them in the     *)
(* order in which they first act.                                          *)
Turn(t) == t <= ghost.started
Started(g, t) == [g EXCEPT !.started = IF t = @ THEN @ + 1 ELSE @]

(* The heap address an Object points at, if it is a pointer. *)
Target(o) == IF o.tag \in PointerTags THEN {o.val} ELSE {}
Targets(objs) == UNION { Target(o) : o \in objs }

(* gc_mark_children of each heap type: the objects gc_mark is called on.   *)
(* Function marks its name, argument list and body; Namespace marks, for   *)
(* every entry of its table, the symbol, the slot and the parent.          *)
Function_gc_mark_children_with_env(o) ==
    o.name \cup Target(o.arglist) \cup Target(o.body) \cup o.env

Function_gc_mark_children(o) ==
    o.name \cup Target(o.arglist) \cup Target(o.body)

Namespace_gc_mark_children(o) ==
    UNION { {sym, o.table[sym]} \cup o.parent : sym \in DOMAIN o.table }

gc_mark_children(o) ==
    CASE o.kind = "HeapObject" -> Target(o.val)
      [] o.kind = "Symbol"     -> {}
      [] o.kind = "Namespace"  -> Namespace_gc_mark_children(o)
      [] o.kind = "Function"   -> Function_gc_mark_children(o)
      [] OTHER                 -> {}

(* GarbageCollected::gc_mark on each of `todo`: swap the mark in; visit    *)
(* the children only if the old mark differed.  Marking through a handle   *)
(* whose object has been deallocated writes to released memory; the model  *)
(* leaves the heap as it is there.                                         *)
RECURSIVE gc_mark(_, _, _)
gc_mark(h, todo, m) ==
    IF todo = {} THEN h
    ELSE LET a == CHOOSE x \in todo : TRUE
         IN  IF ~IsAlloc(h, a) \/ h[a].gc_marking = m
             THEN gc_mark(h, todo \ {a}, m)
             ELSE gc_mark([h EXCEPT ![a].gc_marking = m],
                          (todo \ {a}) \cup gc_mark_children(h[a]), m)

(* GarbageCollected::should_dealloc: the stored mark differs. *)
should_dealloc(h, obj, mark) ==
    \E a \in Target(obj) : IsAlloc(h, a) /\ h[a].gc_marking # mark

(* sweep: the registry keeps the entries that are marked; the others are   *)
(* deallocated.                                                            *)
(* A sweep that drops nothing from the registry. *)
sweep_kept_everything(h, registry, m) == registry

sweep_kept(h, registry, m) ==
    SelectSeq(registry, LAMBDA obj : ~should_dealloc(h, obj, m))

sweep_freed(h, registry, m) ==
    { obj.val : obj \in { o \in Range(registry) : should_dealloc(h, o, m) } }

deallocate(h, as) == [a \in DOMAIN h |-> IF a \in as THEN Free ELSE h[a]]

(* gc_mark_stack walks every stack registered in STACKS. *)
stacks_to_mark_own_only(stacks) == {}

stacks_to_mark(stacks) == DOMAIN stacks

(* ALLOCED_OBJECTS.lock(): granted when no one holds the mutex. *)
registry_lock_unguarded(owner) == TRUE

registry_lock_free(owner) == owner = NoOwner

(* SYMBOLS_HEAP.lock(): granted when no one holds the mutex. *)
symbols_lock_unguarded(owner) == TRUE

symbols_lock_free(owner) == owner = None

(* HashMap::insert and the position of a thread that is between calls. *)
HashMap_insert(map, k, v) ==
    [x \in DOMAIN map \cup {k} |-> IF x = k THEN v ELSE map[x]]

Running == [pc |-> "run", s |-> None]

----------------------------------------------------------------------------
(* gc_pass, step by step, for each caller: the collector thread (which     *)
(* parks after every pass) and threads that call gc_pass themselves.       *)

Collector  == "collector"
GcCallers  == {Collector, "caller"}
InPass     == {"mark_stack", "mark_scope", "sweep", "finish"}

StackObjs(stacks) == UNION { Range(stacks[k].buf) : k \in DOMAIN stacks }
OnStack(stacks)   == Targets(StackObjs(stacks))
(* The pairs <<k, a>> with a handle to address a on the stack of thread k. *)
OnStackOf(stacks) ==
    UNION { { <<k, a>> : a \in Targets(Range(stacks[k].buf)) } : k \in DOMAIN stacks }

(* Everything reachable from the roots the collector knows: the stacks,    *)
(* the symbol table and the reference-counted environments, following      *)
(* every pointer field.                                                    *)
Fields(o) ==
    CASE o.kind = "HeapObject" -> Target(o.val)
      [] o.kind = "Namespace"  ->
            DOMAIN o.table \cup Range(o.table) \cup o.parent
      [] o.kind = "Function"   -> Function_gc_mark_children_with_env(o)
      [] OTHER                 -> {}

RECURSIVE Reach(_, _, _)
Reach(h, todo, seen) ==
    IF todo = {} THEN seen
    ELSE LET a == CHOOSE x \in todo : TRUE
         IN  IF a \in seen \/ ~IsAlloc(h, a)
             THEN Reach(h, todo \ {a}, seen)
             ELSE Reach(h, (todo \ {a}) \cup Fields(h[a]), seen \cup {a})

Roots == OnStack(STACKS) \cup Range(SYMBOLS_HEAP) \cup DOMAIN ENV_REF_COUNTS
Reachable == Reach(heap, Roots, {})
(* Handles that live in a local variable of some thread. *)
HeldAddrs == UNION { held[t] : t \in Threads }
Referenced == Reach(heap, Roots \cup HeldAddrs, {})
Registered == Targets(Range(ALLOCED_OBJECTS))

(* The locals of gc_pass outside a pass, and the record of the pass that   *)
(* the claims read, cleared when the pass is over.                         *)
NoPass == [mark |-> 0, todo |-> {}]
PassOver(g) ==
    [g EXCEPT !.pinned = {}, !.pinnedReg = {}, !.garbage = {}, !.swept = {},
              !.sweepDone = FALSE, !.mark = 0]

(* What the claims about the start of a pass remember, in the runs that    *)
(* keep such a record: the callers of gc_pass whose call came while        *)
(* another caller was inside a pass, and the threshold and the epoch at    *)
(* the last registration ...                                               *)
CalledGcPass(g, pcs, c) ==
    IF "busyCall" \in DOMAIN g
    THEN [g EXCEPT !.busyCall =
            IF \E d \in GcCallers \ {c} : pcs[d] \in InPass
            THEN @ \cup {c} ELSE @ \ {c}]
    ELSE g

Registered_at(g, threshold, epoch) ==
    IF "reg" \in DOMAIN g
    THEN [g EXCEPT !.reg = [threshold |-> threshold, epoch |-> epoch,
                            unparked |-> "no"]]
    ELSE g

(* ... and where the collector thread was when the unpark that followed    *)
(* that registration arrived.                                              *)
Unparked_at(g, pc) ==
    IF "reg" \in DOMAIN g THEN [g EXCEPT !.reg.unparked = pc] ELSE g

(* A thread calls gc_pass and asks for the registry lock. *)
GcCall(c) ==
    /\ c # Collector
    /\ gcpc[c] = "idle"
    /\ THE_GC_MARK < MaxEpoch
    /\ gcpc' = [gcpc EXCEPT ![c] = "lock"]
    /\ ghost' = CalledGcPass(ghost, gcpc, c)
    /\ UNCHANGED <<stackVars, heap, ALLOCED_OBJECTS, JUST_ALLOCATED, regLock,
                   THE_GC_MARK, GC_THRESHOLD, gcLocal, parkToken, allocCt,
                   envVars, thrVars>>

(* gc/mod.rs:121-123: take the lock, then mark = THE_GC_MARK.fetch_add(1). *)
GcAcquire(c) ==
    /\ gcpc[c] = "lock"
    /\ THE_GC_MARK < MaxEpoch
    /\ registry_lock_free(regLock)
    /\ regLock' = c
    /\ THE_GC_MARK' = THE_GC_MARK + 1
    /\ gcLocal' = [gcLocal EXCEPT ![c] =
                      [mark |-> THE_GC_MARK, todo |-> stacks_to_mark(STACKS)]]
    /\ gcpc' = [gcpc EXCEPT ![c] =
                  IF stacks_to_mark(STACKS) = {} THEN "mark_scope" ELSE "mark_stack"]
    /\ ghost' = [ghost EXCEPT !.pinned = { p \in OnStackOf(STACKS) : IsAlloc(heap, p[2]) },
                              !.pinnedReg = { p \in OnStackOf(STACKS) : p[2] \in Registered },
                              !.garbage = Registered \ Referenced,
                              !.mark = THE_GC_MARK,
                              !.swept = {},
                              !.sweepDone = FALSE]
    /\ UNCHANGED <<stackVars, heap, ALLOCED_OBJECTS, JUST_ALLOCATED,
                   GC_THRESHOLD, parkToken, allocCt, envVars, thrVars>>

(* gc_mark_stack: one stack at a time, under that stack's mutex. *)
GcMarkStack(c) ==
    /\ gcpc[c] = "mark_stack"
    /\ \E k \in gcLocal[c].todo :
          /\ heap' = gc_mark(heap, Targets(Range(STACKS[k].buf)), gcLocal[c].mark)
          /\ gcLocal' = [gcLocal EXCEPT ![c].todo = @ \ {k}]
          /\ gcpc' = [gcpc EXCEPT ![c] =
                        IF gcLocal[c].todo = {k} THEN "mark_scope" ELSE "mark_stack"]
    /\ UNCHANGED <<stackVars, ALLOCED_OBJECTS, JUST_ALLOCATED, regLock,
                   THE_GC_MARK, GC_THRESHOLD, parkToken, allocCt,
                   envVars, thrVars, ghost>>

(* mark_scope: every symbol of SYMBOLS_HEAP, under its lock, then          *)
(* gc_mark_scope: every key of ENV_REF_COUNTS, under its lock.  The two    *)
(* halves touch different tables and whatever another thread does between  *)
(* them has the same effect before or after both; they are one step.       *)
GcMarkScope(c) ==
    /\ gcpc[c] = "mark_scope"
    /\ symbols_lock_free(symLock)
    /\ heap' = gc_mark(gc_mark(heap, Range(SYMBOLS_HEAP), gcLocal[c].mark),
                       DOMAIN ENV_REF_COUNTS, gcLocal[c].mark)
    /\ gcpc' = [gcpc EXCEPT ![c] = "sweep"]
    /\ UNCHANGED <<stackVars, ALLOCED_OBJECTS, JUST_ALLOCATED, regLock,
                   THE_GC_MARK, GC_THRESHOLD, gcLocal, parkToken, allocCt,
                   envVars, thrVars, ghost>>

GcSweep(c) ==
    /\ gcpc[c] = "sweep"
    /\ LET freed == sweep_freed(heap, ALLOCED_OBJECTS, gcLocal[c].mark)
       IN  /\ ALLOCED_OBJECTS' = sweep_kept(heap, ALLOCED_OBJECTS, gcLocal[c].mark)
           /\ heap' = deallocate(heap, freed)
           /\ ghost' = [ghost EXCEPT !.swept = freed, !.sweepDone = TRUE]
    /\ gcpc' = [gcpc EXCEPT ![c] = "finish"]
    /\ UNCHANGED <<stackVars, JUST_ALLOCATED, regLock, THE_GC_MARK,
                   GC_THRESHOLD, gcLocal, parkToken, allocCt, envVars, thrVars>>

(* A threshold that is the number of registry entries itself. *)
update_gc_threshold_live_count(alloced) == Len(alloced)

(* update_gc_threshold: the value stored to GC_THRESHOLD. *)
update_gc_threshold(alloced) == Len(alloced) * 2

(* update_gc_threshold, then the lock is dropped and the pass's locals go  *)
(* out of scope; the collector thread goes on to park.                     *)
GcFinish(c) ==
    /\ gcpc[c] = "finish"
    /\ GC_THRESHOLD' = update_gc_threshold(ALLOCED_OBJECTS)
    /\ regLock' = NoOwner
    /\ gcpc' = [gcpc EXCEPT ![c] = IF c = Collector THEN "park" ELSE "idle"]
    /\ gcLocal' = [gcLocal EXCEPT ![c] = NoPass]
    /\ ghost' = PassOver(ghost)
    /\ UNCHANGED <<stackVars, heap, ALLOCED_OBJECTS, JUST_ALLOCATED,
                   THE_GC_MARK, parkToken, allocCt, envVars, thrVars>>

(* gc_thread: thread::park() returns once the token is set. *)
GcPark(c) ==
    /\ c = Collector
    /\ gcpc[c] = "park"
    /\ parkToken
    /\ parkToken' = FALSE
    /\ gcpc' = [gcpc EXCEPT ![c] = "lock"]
    /\ ghost' = CalledGcPass(ghost, gcpc, c)
    /\ UNCHANGED <<stackVars, heap, ALLOCED_OBJECTS, JUST_ALLOCATED, regLock,
                   THE_GC_MARK, GC_THRESHOLD, gcLocal, allocCt, envVars, thrVars>>

(* A receiver that hands out the message sent last. *)
recv_newest(chan) ==
    [msg |-> chan[Len(chan)], rest |-> SubSeq(chan, 1, Len(chan) - 1)]

(* receiver.iter(): the next message of the channel, oldest first. *)
recv(chan) == [msg |-> Head(chan), rest |-> Tail(chan)]

(* The allocator thread: receive, lock, push, read the length, unlock. *)
AllocRegister ==
    /\ allocCt = None
    /\ JUST_ALLOCATED # <<>>
    /\ registry_lock_free(regLock)
    /\ ALLOCED_OBJECTS' = Append(ALLOCED_OBJECTS, recv(JUST_ALLOCATED).msg)
    /\ JUST_ALLOCATED' = recv(JUST_ALLOCATED).rest
    /\ allocCt' = Some(Len(ALLOCED_OBJECTS) + 1)
    /\ ghost' = Registered_at(ghost, GC_THRESHOLD, THE_GC_MARK)
    /\ UNCHANGED <<stackVars, heap, regLock, THE_GC_MARK, GC_THRESHOLD, gcpc,
                   gcLocal, parkToken, envVars, thrVars>>

(* An unpark that reaches only a thread that is parked already. *)
unpark_only_if_parked(token, pc) == token \/ pc = "park"

(* Thread::unpark: the token of the thread is made available, wherever     *)
(* the thread is.                                                          *)
unpark(token, pc) == TRUE

(* allocate.rs:60-62: unpark the collector when ct exceeds the threshold;  *)
(* the first use of THE_GC_THREAD spawns it.                               *)
AllocUnpark ==
    /\ allocCt # None
    /\ allocCt' = None
    /\ IF \E ct \in allocCt : ct > GC_THRESHOLD
       THEN /\ parkToken' = unpark(parkToken, gcpc[Collector])
            /\ gcpc' = [gcpc EXCEPT ![Collector] =
                          IF @ = "unspawned" THEN "lock" ELSE @]
            /\ ghost' = Unparked_at(IF gcpc[Collector] = "unspawned"
                                    THEN CalledGcPass(ghost, gcpc, Collector)
                                    ELSE ghost,
                                    gcpc[Collector])
       ELSE UNCHANGED <<parkToken, gcpc, ghost>>
    /\ UNCHANGED <<stackVars, heap, ALLOCED_OBJECTS, JUST_ALLOCATED, regLock,
                   THE_GC_MARK, GC_THRESHOLD, gcLocal, envVars, thrVars>>

GcStep(c) ==
    \/ GcCall(c)
    \/ GcAcquire(c)
    \/ GcMarkStack(c)
    \/ GcMarkScope(c)
    \/ GcSweep(c)
    \/ GcFinish(c)
    \/ GcPark(c)

----------------------------------------------------------------------------
(* Initial values shared by every specification. *)


InitGc ==
    /\ heap = [a \in Addr |-> Free]
    /\ ALLOCED_OBJECTS = <<>>
    /\ JUST_ALLOCATED = <<>>
    /\ regLock = NoOwner
    /\ THE_GC_MARK = 0
    /\ GC_THRESHOLD = INITIAL_GC_THRESHOLD
    /\ gcpc = [c \in GcCallers |-> IF c = Collector THEN "unspawned" ELSE "idle"]
    /\ gcLocal = [c \in GcCallers |-> NoPass]
    /\ parkToken = FALSE
    /\ allocCt = None

InitEnv ==
    /\ SYMBOLS_HEAP = << >>
    /\ symLock = None
    /\ ENV_REF_COUNTS = << >>
    /\ ENV_STACK = << >>

InitThr ==
    /\ tpc = [t \in Threads |-> Running]
    /\ held = [t \in Threads |-> None]

InitGhost ==
    [ops |-> 0, actor |-> 0, started |-> 0, allocs |-> 0, pinned |-> {}, pinnedReg |-> {},
     interned |-> {}, symAllocs |-> {},
     garbage |-> {}, swept |-> {}, sweepDone |-> FALSE, mark |-> 0]

----------------------------------------------------------------------------
(* SpecStack: the evaluation stack on its own.  Each thread works on its   *)
(* own stack; the run starts from an empty registry of stacks or from      *)
(* stacks that earlier pushes have filled to a given depth.                *)

StackVals == { UnsignedInt(0), UnsignedInt(1), nil }
RetVals   == { UnsignedInt(1), nil }
ArgLists  == { [i \in 1 .. n |-> IF i % 2 = 1 THEN nil ELSE UnsignedInt(i)] :
               n \in 0 .. MaxFrame }
ArgIdx    == 0 .. (MaxFrame + 1)

Filled(d) ==
    [buf |-> [i \in 1 .. d |-> UnsignedInt(i % 3)], cap |-> STACK_CAPACITY]

InitDepths == { 2, STACK_CAPACITY - 2, STACK_CAPACITY }

NoteOp(t, op, arg, pre, ret) ==
    /\ hist' = [hist EXCEPT ![t] =
                  IF Len(@) = 0 THEN << [op |-> op, arg |-> arg, pre |-> pre, ret |-> ret] >>
                  ELSE << Last(@), [op |-> op, arg |-> arg, pre |-> pre, ret |-> ret] >>]
    /\ ghost' = [ghost EXCEPT !.ops = @ + 1]

(* One thread of the run works on its stack; the stacks of the others    *)
(* stay as they are.                                                      *)
StackBudget(t) == ghost.ops < MaxOps /\ t = ghost.actor

InitStack ==
    /\ \/ STACKS = << >>
       \/ \E d \in InitDepths : STACKS = [t \in Threads |-> Filled(d)]
    /\ hist = [t \in Threads |-> <<>>]
    /\ InitGc /\ InitEnv /\ InitThr
    /\ \E t \in Threads : ghost = [InitGhost EXCEPT !.actor = t]

StackPush(t, o) ==
    /\ StackBudget(t)
    /\ LET S == with_stack(STACKS, t)
           r == push(t, S[t], o)
       IN  /\ STACKS' = [S EXCEPT ![t] = r.vec]
           /\ NoteOp(t, "push", o, S[t], r.res)
    /\ UNCHANGED <<gcVars, envVars, thrVars>>

StackPop(t) ==
    /\ StackBudget(t)
    /\ LET S == with_stack(STACKS, t)
           r == pop(S[t])
       IN  /\ STACKS' = [S EXCEPT ![t] = r.vec]
           /\ NoteOp(t, "pop", nil, S[t], r.res)
    /\ UNCHANGED <<gcVars, envVars, thrVars>>

MakeStackFrame(t, objs) ==
    /\ StackBudget(t)
    /\ LET S == with_stack(STACKS, t)
           r == make_stack_frame(S[t], objs)
       IN  /\ STACKS' = [S EXCEPT ![t] = r.vec]
           /\ NoteOp(t, "make_stack_frame", objs, S[t], r.res)
    /\ UNCHANGED <<gcVars, envVars, thrVars>>

NthArg(t, n) ==
    /\ StackBudget(t)
    /\ LET S == with_stack(STACKS, t)
       IN  /\ frame_on_top(S[t])
           /\ STACKS' = S
           /\ NoteOp(t, "nth_arg", n, S[t], nth_arg(t, S[t], n))
    /\ UNCHANGED <<gcVars, envVars, thrVars>>

CloseStackFrameAndReturn(t, v) ==
    /\ StackBudget(t)
    /\ LET S == with_stack(STACKS, t)
       IN  /\ frame_on_top(S[t])
           /\ STACKS' = [S EXCEPT ![t] = close_stack_frame_and_return(S[t], v)]
           /\ NoteOp(t, "close_stack_frame_and_return", v, S[t], Ok(v))
    /\ UNCHANGED <<gcVars, envVars, thrVars>>

NextStack ==
    \E t \in Threads :
        \/ \E o \in StackVals : StackPush(t, o)
        \/ StackPop(t)
        \/ \E objs \in ArgLists : MakeStackFrame(t, objs)
        \/ \E n \in ArgIdx : NthArg(t, n)
        \/ \E v \in RetVals : CloseStackFrameAndReturn(t, v)

SpecStack == InitStack /\ [][NextStack]_vars

----------------------------------------------------------------------------
(* SpecGC: evaluating threads that allocate boxed values and push and pop  *)
(* them, the allocator thread, the collector thread and a thread calling   *)
(* gc_pass itself.                                                         *)

(* with_stack inserts a new stack under STACKS' write lock, which waits    *)
(* while gc_mark_stack holds the read lock.                                *)
CanUseStack(t) ==
    t \in DOMAIN STACKS \/ \A c \in GcCallers : gcpc[c] # "mark_stack"

(* What stays pinned: on the same thread's stack ever since the pass began. *)
StillPinned(g, stacks) ==
    [g EXCEPT !.pinned = @ \cap OnStackOf(stacks),
              !.pinnedReg = @ \cap OnStackOf(stacks)]

(* GarbageCollected::allocate: alloc_one_and_initialize, then              *)
(* add_to_alloced sends the object to the allocator thread, then the       *)
(* handle is returned.                                                     *)
allocate(h, chan, a, o, tag) ==
    [heap |-> [h EXCEPT ![a] = o],
     chan |-> Append(chan, Pointer(tag, a)),
     ret  |-> a]

Allocate(t) ==
    /\ held[t] = None
    /\ AllocBudget
    /\ Turn(t)
    /\ \E a \in alloc_one(heap), v \in {UnsignedInt(0)} :
          LET r == allocate(heap, JUST_ALLOCATED, a, HeapObject_around(v), "HeapObject")
          IN  /\ heap' = r.heap
              /\ JUST_ALLOCATED' = r.chan
              /\ held' = [held EXCEPT ![t] = Some(r.ret)]
    /\ ghost' = Started([ghost EXCEPT !.allocs = @ + 1], t)
    /\ UNCHANGED <<stackVars, ALLOCED_OBJECTS, regLock, THE_GC_MARK, GC_THRESHOLD,
                   gcpc, gcLocal, parkToken, allocCt, envVars, tpc>>

(* stack::push of the handle the thread holds; the local goes out of scope. *)
PushHeld(t) ==
    /\ held[t] # None
    /\ CanUseStack(t)
    /\ LET S == with_stack(STACKS, t)
           r == push(t, S[t], Pointer("HeapObject", CHOOSE a \in held[t] : TRUE))
       IN  /\ Len(S[t].buf) < MaxDepth
           /\ STACKS' = [S EXCEPT ![t] = r.vec]
    /\ held' = [held EXCEPT ![t] = None]
    /\ UNCHANGED <<hist, gcVars, envVars, tpc, ghost>>

(* stack::pop; the popped object is dropped. *)
Pop(t) ==
    /\ t \in DOMAIN STACKS
    /\ LET r == pop(STACKS[t])
       IN  /\ r.res.ok
           /\ STACKS' = [STACKS EXCEPT ![t] = r.vec]
           /\ ghost' = StillPinned(ghost, [STACKS EXCEPT ![t] = r.vec])
    /\ UNCHANGED <<hist, gcVars, envVars, thrVars>>

(* The thread lets go of the handle it holds without storing it anywhere. *)
Forget(t) ==
    /\ held[t] # None
    /\ held' = [held EXCEPT ![t] = None]
    /\ UNCHANGED <<stackVars, gcVars, envVars, tpc, ghost>>

InitGC ==
    /\ STACKS = << >>
    /\ hist = [t \in Threads |-> <<>>]
    /\ InitGc /\ InitEnv /\ InitThr
    /\ ghost = InitGhost

NextGC ==
    \/ \E t \in Threads : Allocate(t) \/ PushHeld(t) \/ Pop(t) \/ Forget(t)
    \/ AllocRegister
    \/ AllocUnpark
    \/ \E c \in GcCallers : GcStep(c)

SpecGC == InitGC /\ [][NextGC]_vars


----------------------------------------------------------------------------
(* SpecSym: threads interning symbols with make_symbol while the allocator *)
(* thread registers what they allocate and the collector runs passes.      *)

SymNames == {"foo", "bar"}

(* make_symbol, symbol_lookup/mod.rs:197: SYMBOLS_HEAP.lock(). *)
MakeSymbolLock(t, s) ==
    /\ tpc[t] = Running
    /\ Turn(t)
    /\ symbols_lock_free(symLock)
    /\ symLock' = Some(t)
    /\ tpc' = [tpc EXCEPT ![t] = [pc |-> "make_symbol", s |-> Some(s)]]
    /\ ghost' = Started(ghost, t)
    /\ UNCHANGED <<stackVars, gcVars, SYMBOLS_HEAP, ENV_REF_COUNTS, ENV_STACK, held>>

(* symbol_lookup/mod.rs:198-199: if the name is absent, Symbol::allocate. *)
MakeSymbolAllocate(t) ==
    /\ tpc[t].pc = "make_symbol"
    /\ \E s \in tpc[t].s :
          IF s \notin DOMAIN SYMBOLS_HEAP
          THEN /\ AllocBudget
               /\ \E a \in alloc_one(heap) :
                     LET r == allocate(heap, JUST_ALLOCATED, a, Symbol_new(s), "Symbol")
                     IN  /\ heap' = r.heap
                         /\ JUST_ALLOCATED' = r.chan
                         /\ held' = [held EXCEPT ![t] = Some(r.ret)]
               /\ ghost' = [ghost EXCEPT !.allocs = @ + 1,
                                         !.symAllocs = @ \cup {<<s, ghost.allocs>>}]
          ELSE UNCHANGED <<heap, JUST_ALLOCATED, held, ghost>>
    /\ tpc' = [tpc EXCEPT ![t].pc = "make_symbol_get"]
    /\ UNCHANGED <<stackVars, ALLOCED_OBJECTS, regLock, THE_GC_MARK, GC_THRESHOLD,
                   gcpc, gcLocal, parkToken, allocCt, envVars>>

(* symbol_lookup/mod.rs:200-203: insert what was allocated, return what    *)
(* the table holds for the name; the guard is dropped.                     *)
MakeSymbolReturn(t) ==
    /\ tpc[t].pc = "make_symbol_get"
    /\ \E s \in tpc[t].s :
          LET sym_heap == IF held[t] # None
                          THEN HashMap_insert(SYMBOLS_HEAP, s, CHOOSE a \in held[t] : TRUE)
                          ELSE SYMBOLS_HEAP
          IN  /\ SYMBOLS_HEAP' = sym_heap
              /\ ghost' = [ghost EXCEPT !.interned =
                              @ \cup {[s |-> s, sym |-> sym_heap[s], by |-> t]}]
    /\ symLock' = None
    /\ held' = [held EXCEPT ![t] = None]
    /\ tpc' = [tpc EXCEPT ![t] = Running]
    /\ UNCHANGED <<stackVars, gcVars, ENV_REF_COUNTS, ENV_STACK>>

(* Every thread has used its evaluation stack before, and left it empty. *)
UsedStacks == [t \in Threads |-> with_stack(<< >>, t)[t]]

InitSym ==
    /\ STACKS = UsedStacks
    /\ hist = [t \in Threads |-> <<>>]
    /\ InitGc /\ InitEnv /\ InitThr
    /\ ghost = InitGhost

NextSym ==
    \/ \E t \in Threads :
          \/ \E s \in SymNames : MakeSymbolLock(t, s)
          \/ MakeSymbolAllocate(t)
          \/ MakeSymbolReturn(t)
    \/ AllocRegister
    \/ AllocUnpark
    \/ \E c \in GcCallers : GcStep(c)

SpecSym == InitSym /\ [][NextSym]_vars


----------------------------------------------------------------------------
(* SpecEnv: threads evaluating `let` forms and `defun` forms inside them,  *)
(* next to the allocator thread and the collector.  The run starts once    *)
(* the global namespace exists with a binding for one function name and    *)
(* every thread has initialised its ENV_STACK with it.                     *)

GlobalEnv == MaxAddr + 1
SymF      == MaxAddr + 2
SlotF     == MaxAddr + 3
StaticAddr == {GlobalEnv, SymF, SlotF}

current_env(t) == Last(ENV_STACK[t])
global_env(t)  == ENV_STACK[t][1]

(* symbol_lookup::add_ref_to and remove_ref_to on the HashMap. *)
add_ref_to(counts, n) ==
    IF n \in DOMAIN counts
    THEN [counts EXCEPT ![n] = @ + 1]
    ELSE HashMap_insert(counts, n, 1)

remove_ref_to(counts, n) ==
    IF counts[n] - 1 = 0
    THEN [x \in DOMAIN counts \ {n} |-> counts[x]]
    ELSE [counts EXCEPT ![n] = @ - 1]

(* Namespace::create_let_env: a heap namespace whose parent is the current *)
(* env; it is not pushed yet.  The bindings list is empty.                 *)
CreateLetEnv(t) ==
    /\ tpc[t] = Running
    /\ held[t] = None
    /\ Len(ENV_STACK[t]) < MaxDepth
    /\ AllocBudget
    /\ Turn(t)
    /\ \E a \in alloc_one(heap) :
          LET nmspc == Namespace_Heap(<< >>, Some(current_env(t)))
              r == allocate(heap, JUST_ALLOCATED, a, nmspc, "Namespace")
          IN  /\ heap' = r.heap
              /\ JUST_ALLOCATED' = r.chan
              /\ held' = [held EXCEPT ![t] = Some(r.ret)]
    /\ ghost' = Started([ghost EXCEPT !.allocs = @ + 1], t)
    /\ UNCHANGED <<stackVars, ALLOCED_OBJECTS, regLock, THE_GC_MARK, GC_THRESHOLD,
                   gcpc, gcLocal, parkToken, allocCt, envVars, tpc>>

(* with_env, entry: add_ref_to(env), then the push on ENV_STACK. *)
WithEnvEnter(t) ==
    /\ tpc[t] = Running
    /\ \E env \in held[t] :
          /\ ENV_REF_COUNTS' = add_ref_to(ENV_REF_COUNTS, env)
          /\ ENV_STACK' = [ENV_STACK EXCEPT ![t] = Append(@, env)]
    /\ held' = [held EXCEPT ![t] = None]
    /\ UNCHANGED <<stackVars, gcVars, SYMBOLS_HEAP, symLock, tpc, ghost>>

(* with_env, exit: the pop from ENV_STACK, then remove_ref_to(env). *)
WithEnvExit(t) ==
    /\ tpc[t] = Running
    /\ held[t] = None
    /\ Len(ENV_STACK[t]) > 1
    /\ ENV_STACK' = [ENV_STACK EXCEPT ![t] = Front(@)]
    /\ ENV_REF_COUNTS' = remove_ref_to(ENV_REF_COUNTS, current_env(t))
    /\ UNCHANGED <<stackVars, gcVars, SYMBOLS_HEAP, symLock, thrVars, ghost>>

(* defun, first half: Function::allocate(make_lambda(..).with_name(name))  *)
(* with scope_for_a_new_function() as env: the env below defun's own       *)
(* frame, which is the env the form was met in.                            *)
DefunAllocate(t) ==
    /\ tpc[t] = Running
    /\ held[t] = None
    /\ Len(ENV_STACK[t]) > 1
    /\ AllocBudget
    /\ \E a \in alloc_one(heap) :
          LET func == [Function_make_lambda(current_env(t)) EXCEPT !.name = Some(SymF)]
              r == allocate(heap, JUST_ALLOCATED, a, func, "Function")
          IN  /\ heap' = r.heap
              /\ JUST_ALLOCATED' = r.chan
              /\ held' = [held EXCEPT ![t] = Some(r.ret)]
    /\ tpc' = [tpc EXCEPT ![t].pc = "defun"]
    /\ ghost' = [ghost EXCEPT !.allocs = @ + 1]
    /\ UNCHANGED <<stackVars, ALLOCED_OBJECTS, regLock, THE_GC_MARK, GC_THRESHOLD,
                   gcpc, gcLocal, parkToken, allocCt, envVars>>

(* defun, second half: *(make_from_global_namespace(name)) = func.  The    *)
(* name is bound already, so make_sym_ref returns its slot.                *)
DefunStore(t) ==
    /\ tpc[t].pc = "defun"
    /\ \E func \in held[t] :
          LET slot == heap[global_env(t)].table[SymF]
          IN  heap' = [heap EXCEPT ![slot].val = Pointer("Function", func)]
    /\ held' = [held EXCEPT ![t] = None]
    /\ tpc' = [tpc EXCEPT ![t] = Running]
    /\ UNCHANGED <<stackVars, ALLOCED_OBJECTS, JUST_ALLOCATED, regLock, THE_GC_MARK,
                   GC_THRESHOLD, gcpc, gcLocal, parkToken, allocCt, envVars, ghost>>

InitEnvSpec ==
    /\ STACKS = UsedStacks
    /\ hist = [t \in Threads |-> <<>>]
    /\ heap = [a \in Addr \cup StaticAddr |->
                 CASE a = GlobalEnv -> Namespace_Heap([x \in {SymF} |-> SlotF], None)
                   [] a = SymF      -> Symbol_new("f")
                   [] a = SlotF     -> HeapObject_around(uninitialized)
                   [] OTHER         -> Free]
    /\ ALLOCED_OBJECTS = << Pointer("Symbol", SymF), Pointer("Namespace", GlobalEnv),
                            Pointer("HeapObject", SlotF) >>
    /\ JUST_ALLOCATED = <<>>
    /\ regLock = NoOwner
    /\ THE_GC_MARK = 0
    /\ GC_THRESHOLD = INITIAL_GC_THRESHOLD
    /\ gcpc = [c \in GcCallers |-> IF c = Collector THEN "unspawned" ELSE "idle"]
    /\ gcLocal = [c \in GcCallers |-> NoPass]
    /\ parkToken = FALSE
    /\ allocCt = None
    /\ SYMBOLS_HEAP = [x \in {"f"} |-> SymF]
    /\ symLock = None
    /\ ENV_REF_COUNTS = [x \in {GlobalEnv} |-> NThreads]
    /\ ENV_STACK = [t \in Threads |-> << GlobalEnv >>]
    /\ InitThr
    /\ ghost = InitGhost

NextEnv ==
    \/ \E t \in Threads :
          \/ CreateLetEnv(t)
          \/ WithEnvEnter(t)
          \/ WithEnvExit(t)
          \/ DefunAllocate(t)
          \/ DefunStore(t)
    \/ AllocRegister
    \/ AllocUnpark
    \/ \E c \in GcCallers : GcStep(c)

SpecEnv == InitEnvSpec /\ [][NextEnv]_vars

----------------------------------------------------------------------------
(* SpecCall: one application of a function, from Function::call to its     *)
(* return.  Symbols are interned, so a symbol handle is written as its     *)
(* name; a list is written as the sequence of its elements.                *)

Sym(n) == Pointer("Symbol", n)
OPTIONAL == Sym("&optional")
REST     == Sym("&rest")
KEY      == Sym("&key")

(* Symbol::with_colon_in_front: the keyword that names a parameter. *)
with_colon_in_front(s) == Sym(":" \o s.val)

(* List::push conses in front; List::reverse; Object::from(List). *)
List_push(l, obj) == << obj >> \o l

RECURSIVE List_reverse_onto(_, _)
List_reverse_onto(l, new_list) ==
    IF l = << >> THEN new_list
    ELSE List_reverse_onto(Tail(l), List_push(new_list, Head(l)))

List_reverse(l) == List_reverse_onto(l, << >>)

Object_from_List(l) == IF l = << >> THEN nil ELSE [tag |-> "Cons", val |-> l]

BadArgCount(arglist, found) ==
    [error |-> "BadArgCount", arglist |-> arglist, found |-> found]
TypeError == [error |-> "TypeError"]
UnaccompaniedKey(key) == [error |-> "UnaccompaniedKey", key |-> key]
UnboundSymbolError(sym) == [error |-> "UnboundSymbolError", sym |-> sym]
UserError == [error |-> "User"]

(* count_stack_frame_length: the symbols of the arglist that are not       *)
(* &optional, &rest or &key.                                               *)
count_stack_frame_length(arglist) ==
    Len(SelectSeq(arglist, LAMBDA s : ~(s = REST \/ s = OPTIONAL \/ s = KEY)))

Function_new(arglist, special, env) ==
    [arglist |-> arglist, special |-> special,
     stack_frame_length |-> count_stack_frame_length(arglist), env |-> env]

should_evaluate_args(self) == ~self.special

(* Function::call, lines 102-110: the arguments of a function that is not  *)
(* a special form are evaluated in order and consed up, then reversed.     *)
(* The arguments of the model evaluate to themselves.                      *)
RECURSIVE eval_args_onto(_, _)
eval_args_onto(args, evaled_args) ==
    IF args = << >> THEN evaled_args
    ELSE eval_args_onto(Tail(args), List_push(evaled_args, Head(args)))

eval_args_unreversed(args) == eval_args_onto(args, << >>)

eval_args(args) == List_reverse(eval_args_onto(args, << >>))

(* stack::end_stack_frame: `length` pops, stopping at the first underflow. *)
RECURSIVE end_stack_frame(_, _)
end_stack_frame(s, length) ==
    IF length = 0 THEN [vec |-> s, res |-> Ok(nil)]
    ELSE LET r == pop(s)
         IN  IF r.res.ok THEN end_stack_frame(r.vec, length - 1) ELSE r

ref_top(k, s) == Reference(k, Len(s.buf) - 1)

(* The error exits of build_env: end_stack_frame(stack_frame_length)?,     *)
(* then return Err(e).                                                     *)
build_env_fail_keeps_frame(s, stack_frame_length, e) ==
    [vec |-> s, res |-> Err(e)]

build_env_fail(s, stack_frame_length, e) ==
    LET r == end_stack_frame(s, stack_frame_length)
    IN  IF r.res.ok THEN [vec |-> r.vec, res |-> Err(e)] ELSE r

(* build_env, lines 198-219: the remaining arguments, two by two, into a   *)
(* HashMap; a later value for a key replaces an earlier one.               *)
RECURSIVE key_pairs_by_one(_, _)
key_pairs_by_one(args, pairs) ==
    IF args = << >> THEN Ok(pairs)
    ELSE LET key == Head(args)
         IN  IF key.tag # "Symbol" THEN Err(TypeError)
             ELSE IF Len(args) < 2 THEN Err(UnaccompaniedKey(key))
             ELSE key_pairs_by_one(Tail(args), HashMap_insert(pairs, key, args[2]))

RECURSIVE key_pairs(_, _)
key_pairs(args, pairs) ==
    IF args = << >> THEN Ok(pairs)
    ELSE LET key == Head(args)
         IN  IF key.tag # "Symbol" THEN Err(TypeError)
             ELSE IF Len(args) < 2 THEN Err(UnaccompaniedKey(key))
             ELSE key_pairs(Tail(Tail(args)), HashMap_insert(pairs, key, args[2]))

HashMap_get_or(map, k, default) == IF k \in DOMAIN map THEN map[k] ELSE default

(* build_env, lines 220-242: one slot for the first keyword parameter and  *)
(* one for every symbol left in the arglist.                               *)
RECURSIVE push_keys(_, _, _, _)
push_keys(k, syms, pairs, st) ==
    IF syms = << >> THEN [vec |-> st.vec, res |-> Ok(st.symbol_lookup_buf)]
    ELSE LET v == HashMap_get_or(pairs, with_colon_in_front(Head(syms)), uninitialized)
             r == push(k, st.vec, v)
         IN  IF ~r.res.ok
             THEN build_env_fail(st.vec, st.stack_frame_length, r.res.val)
             ELSE push_keys(k, Tail(syms), pairs,
                     [st EXCEPT !.vec = r.vec,
                                !.stack_frame_length = @ + 1,
                                !.symbol_lookup_buf =
                                    Append(@, << Head(syms), ref_top(k, r.vec) >>)])

(* build_env, lines 143-246: the loop over the arglist.  st holds the      *)
(* locals: iter, args, arg_type, n_args, stack_frame_length,               *)
(* symbol_lookup_buf, and the thread's stack.                              *)
RECURSIVE build_env_loop(_, _, _)
build_env_loop(self, k, st) ==
    IF st.iter = << >> THEN [vec |-> st.vec, res |-> Ok(st.symbol_lookup_buf)]
    ELSE
    LET arg_sym == Head(st.iter)
        next    == [st EXCEPT !.iter = Tail(@)]
        pushed(r, narg, args) ==
            [next EXCEPT !.vec = r.vec, !.args = args,
                         !.n_args = @ + narg,
                         !.stack_frame_length = @ + 1,
                         !.symbol_lookup_buf = Append(@, << arg_sym, ref_top(k, r.vec) >>)]
    IN  CASE arg_sym = OPTIONAL -> build_env_loop(self, k, [next EXCEPT !.arg_type = "Optional"])
          [] arg_sym = REST     -> build_env_loop(self, k, [next EXCEPT !.arg_type = "Rest"])
          [] arg_sym = KEY      -> build_env_loop(self, k, [next EXCEPT !.arg_type = "Key"])
          [] OTHER ->
             CASE st.arg_type = "Mandatory" ->
                    IF st.args # << >>
                    THEN LET r == push(k, st.vec, Head(st.args))
                         IN  IF ~r.res.ok
                             THEN build_env_fail(st.vec, st.stack_frame_length, r.res.val)
                             ELSE build_env_loop(self, k, pushed(r, 1, Tail(st.args)))
                    ELSE build_env_fail(st.vec, st.stack_frame_length,
                                        BadArgCount(self.arglist, st.n_args))
               [] st.arg_type = "Optional" ->
                    LET o    == IF st.args # << >> THEN Head(st.args) ELSE uninitialized
                        narg == IF st.args # << >> THEN 1 ELSE 0
                        r    == push(k, st.vec, o)
                    IN  IF ~r.res.ok
                        THEN build_env_fail(st.vec, st.stack_frame_length, r.res.val)
                        ELSE build_env_loop(self, k,
                                pushed(r, narg, IF st.args # << >> THEN Tail(st.args) ELSE << >>))
               [] st.arg_type = "Rest" ->
                    LET r == push(k, st.vec, Object_from_List(st.args))
                    IN  IF ~r.res.ok
                        THEN build_env_fail(st.vec, st.stack_frame_length, r.res.val)
                        ELSE build_env_loop(self, k, pushed(r, Len(st.args), << >>))
               [] OTHER ->
                    LET pairs == key_pairs(st.args, << >>)
                    IN  IF ~pairs.ok
                        THEN build_env_fail(st.vec, st.stack_frame_length, pairs.val)
                        ELSE push_keys(k, st.iter, pairs.val, st)

(* Namespace::create_stack_env: the pairs collected into a table (a later  *)
(* pair for a symbol replaces an earlier one), with the parent set.        *)
HashMap_collect(pairs) ==
    [sym \in { p[1] : p \in Range(pairs) } |->
        pairs[CHOOSE i \in DOMAIN pairs :
                 /\ pairs[i][1] = sym
                 /\ \A j \in DOMAIN pairs : pairs[j][1] = sym => j <= i][2]]

Namespace_create_stack_env(pairs, parent) ==
    [kind |-> "Namespace", variant |-> "Stack", gc_marking |-> 0,
     table |-> HashMap_collect(pairs), parent |-> Some(parent)]

(* Function::build_env up to the allocation of the namespace. *)
build_env(self, k, s, args) ==
    build_env_loop(self, k,
        [iter |-> self.arglist, args |-> args, arg_type |-> "Mandatory",
         n_args |-> 0, stack_frame_length |-> 0, symbol_lookup_buf |-> << >>,
         vec |-> s])

(* The functions and the argument lists of the run: every arglist of up to *)
(* MaxFrame + 1 symbols and some longer ones with all their sections;      *)
(* every list of up to MaxFrame arguments that are keywords or numbers     *)
(* and every list of up to MaxFrame keyword-value pairs.  The number at    *)
(* position i of an argument list is i.                                    *)
SeqsUpTo(S, n) == UNION { [1 .. m -> S] : m \in 0 .. n }

ParamSyms == { Sym("a"), Sym("b"), OPTIONAL, REST, KEY }
LongArgLists ==
    { << Sym("a"), OPTIONAL, Sym("b"), REST, Sym("c") >>,
      << OPTIONAL, Sym("a"), REST, Sym("b") >>,
      << Sym("a"), Sym("b"), OPTIONAL, Sym("c") >>,
      << Sym("c"), KEY, Sym("a"), Sym("b") >> }
CallArgLists == SeqsUpTo(ParamSyms, MaxFrame + 1) \cup LongArgLists

Keywords == { Sym(":a"), Sym(":b") }
Numbered(shape) ==
    [i \in DOMAIN shape |-> IF shape[i] = nil THEN UnsignedInt(i) ELSE shape[i]]
KeywordArgs ==
    { [i \in 1 .. 2 * Len(keys) |-> IF i % 2 = 1 THEN keys[(i + 1) \div 2]
                                                 ELSE UnsignedInt(i)] :
      keys \in SeqsUpTo(Keywords, MaxFrame) }
CallArgs ==
    { Numbered(shape) : shape \in SeqsUpTo({nil} \cup Keywords, MaxFrame) }
        \cup KeywordArgs

NoteCall(t, op, self, args, evaled, ret) ==
    hist' = [hist EXCEPT ![t] =
                << [op |-> op, self |-> self, arg |-> args, evaled |-> evaled,
                    pre |-> STACKS[t], penv |-> ENV_STACK[t], body |-> None,
                    ret |-> ret] >>]

(* The call has returned. *)
CallOver == ghost' = [ghost EXCEPT !.ops = @ + 1]

(* The run follows one application, made by a thread that is between       *)
(* calls.                                                                  *)
CallStart(t) ==
    /\ tpc[t] = Running
    /\ ghost.ops = 0
    /\ Turn(t)

(* Function::call up to the start of the body: the arguments are           *)
(* evaluated (evalOk: none of them signals), build_env pushes the frame    *)
(* and allocates the namespace, with_env makes it the current env.  An     *)
(* error on the way returns from call.                                     *)
CallEnter(t, self, args, evalOk) ==
    /\ LET evaled == IF ~should_evaluate_args(self) THEN Ok(args)
                     ELSE IF evalOk THEN Ok(eval_args(args))
                     ELSE Err(UnboundSymbolError(Sym("a")))
           r == build_env(self, t, STACKS[t], evaled.val)
       IN  IF ~evaled.ok
           THEN /\ NoteCall(t, "call", self, args, evaled, evaled)
                /\ CallOver
                /\ UNCHANGED <<STACKS, heap, JUST_ALLOCATED, ENV_REF_COUNTS, ENV_STACK, tpc>>
           ELSE IF ~r.res.ok
           THEN /\ STACKS' = [STACKS EXCEPT ![t] = r.vec]
                /\ NoteCall(t, "call", self, args, evaled, r.res)
                /\ CallOver
                /\ UNCHANGED <<heap, JUST_ALLOCATED, ENV_REF_COUNTS, ENV_STACK, tpc>>
           ELSE \E a \in alloc_one(heap) :
                  LET nmspc == Namespace_create_stack_env(r.res.val, self.env)
                      al == allocate(heap, JUST_ALLOCATED, a, nmspc, "Namespace")
                  IN  /\ STACKS' = [STACKS EXCEPT ![t] = r.vec]
                      /\ heap' = al.heap
                      /\ JUST_ALLOCATED' = al.chan
                      /\ ENV_REF_COUNTS' = add_ref_to(ENV_REF_COUNTS, al.ret)
                      /\ ENV_STACK' = [ENV_STACK EXCEPT ![t] = Append(@, al.ret)]
                      /\ tpc' = [tpc EXCEPT ![t] = [pc |-> "body", s |-> None]]
                      /\ NoteCall(t, "enter", self, args, evaled, Ok(al.ret))
                      /\ UNCHANGED ghost
    /\ UNCHANGED <<ALLOCED_OBJECTS, regLock, THE_GC_MARK, GC_THRESHOLD, gcpc,
                   gcLocal, parkToken, allocCt, SYMBOLS_HEAP, symLock, held>>

(* Function::call from the end of the body: with_env pops the env and      *)
(* drops its reference, end_stack_frame pops self.stack_frame_length       *)
(* slots, and the result is second_res.map_err(..).and(res).  The body     *)
(* has left both stacks as it found them and returns res.                  *)
CallExit(t, res) ==
    /\ tpc[t].pc = "body"
    /\ LET h == hist[t][1]
           second_res == end_stack_frame(STACKS[t], h.self.stack_frame_length)
       IN  /\ ENV_STACK' = [ENV_STACK EXCEPT ![t] = Front(@)]
           /\ ENV_REF_COUNTS' = remove_ref_to(ENV_REF_COUNTS, current_env(t))
           /\ STACKS' = [STACKS EXCEPT ![t] = second_res.vec]
           /\ hist' = [hist EXCEPT ![t] =
                         << [h EXCEPT !.op = "call",
                                      !.body = Some(res),
                                      !.ret = IF second_res.res.ok THEN res
                                              ELSE second_res.res] >>]
    /\ tpc' = [tpc EXCEPT ![t] = Running]
    /\ CallOver
    /\ UNCHANGED <<gcVars, SYMBOLS_HEAP, symLock, held>>

BodyResults == { Ok(UnsignedInt(0)), Err(UserError) }

InitCall ==
    /\ \E d \in InitDepths : STACKS = [t \in Threads |-> Filled(d)]
    /\ hist = [t \in Threads |-> <<>>]
    /\ heap = [a \in Addr \cup StaticAddr |->
                 CASE a = GlobalEnv -> Namespace_Heap([x \in {SymF} |-> SlotF], None)
                   [] a = SymF      -> Symbol_new("f")
                   [] a = SlotF     -> HeapObject_around(uninitialized)
                   [] OTHER         -> Free]
    /\ ALLOCED_OBJECTS = << Pointer("Symbol", SymF), Pointer("Namespace", GlobalEnv),
                            Pointer("HeapObject", SlotF) >>
    /\ JUST_ALLOCATED = <<>>
    /\ regLock = NoOwner
    /\ THE_GC_MARK = 0
    /\ GC_THRESHOLD = INITIAL_GC_THRESHOLD
    /\ gcpc = [c \in GcCallers |-> IF c = Collector THEN "unspawned" ELSE "idle"]
    /\ gcLocal = [c \in GcCallers |-> NoPass]
    /\ parkToken = FALSE
    /\ allocCt = None
    /\ SYMBOLS_HEAP = [x \in {"f"} |-> SymF]
    /\ symLock = None
    /\ ENV_REF_COUNTS = [x \in {GlobalEnv} |-> NThreads]
    /\ ENV_STACK = [t \in Threads |-> << GlobalEnv >>]
    /\ InitThr
    /\ ghost = InitGhost

NextCall ==
    \E t \in Threads :
        \/ /\ CallStart(t)
           /\ \E arglist \in CallArgLists, special \in BOOLEAN, args \in CallArgs,
                 evalOk \in BOOLEAN :
                 /\ special => evalOk
                 /\ CallEnter(t, Function_new(arglist, special, GlobalEnv), args, evalOk)
        \/ \E res \in BodyResults : CallExit(t, res)

SpecCall == InitCall /\ [][NextCall]_vars

----------------------------------------------------------------------------
(* SpecExit: the same application with the end of Function::call in two    *)
(* steps, the closing block of with_env and end_stack_frame; the collector *)
(* and other threads can see the state between them.                       *)

(* The steps of the end of a call, in the order they are taken, with the   *)
(* frame popped first ...                                                  *)
call_exit_steps_frame_first == << "end_stack_frame", "with_env" >>

(* ... and as Function::call takes them: with_env returns, then            *)
(* self.end_stack_frame().                                                 *)
call_exit_steps == << "with_env", "end_stack_frame" >>

ExitTurn(t, step) ==
    \/ tpc[t].pc = "body" /\ call_exit_steps[1] = step
    \/ tpc[t].pc = "exit" /\ call_exit_steps[2] = step

(* What the body returned: any result while the body runs, and the one it  *)
(* returned after that.                                                    *)
BodyOf(t) ==
    IF tpc[t].pc = "body" THEN BodyResults ELSE { x.res : x \in tpc[t].s }

(* The call's env: the one with_env was given. *)
CallEnv(t) == hist[t][1].ret.val

(* After a step of the end of the call: the thread remembers res and what  *)
(* end_stack_frame returned if it has run (second_res, a set of at most    *)
(* one result), and after both steps call returns                          *)
(* second_res.map_err(..).and(res).                                        *)
ExitNext(t, res, second_res) ==
    IF tpc[t].pc = "body"
    THEN /\ tpc' = [tpc EXCEPT ![t] =
                      [pc |-> "exit", s |-> Some([res |-> res, sr |-> second_res])]]
         /\ UNCHANGED <<hist, ghost>>
    ELSE /\ tpc' = [tpc EXCEPT ![t] = Running]
         /\ \E x \in tpc[t].s : \E sr \in x.sr \cup second_res :
               hist' = [hist EXCEPT ![t] =
                          << [hist[t][1] EXCEPT !.op = "call",
                                                !.body = Some(res),
                                                !.ret = IF sr.ok THEN res ELSE sr] >>]
         /\ CallOver

(* with_env after fun(): ENV_STACK.pop(), remove_ref_to(env). *)
CallLeaveEnv(t, res) ==
    /\ ExitTurn(t, "with_env")
    /\ res \in BodyOf(t)
    /\ ENV_STACK' = [ENV_STACK EXCEPT ![t] = Front(@)]
    /\ ENV_REF_COUNTS' = remove_ref_to(ENV_REF_COUNTS, CallEnv(t))
    /\ ExitNext(t, res, None)
    /\ UNCHANGED <<STACKS, gcVars, SYMBOLS_HEAP, symLock, held>>

(* self.end_stack_frame(): stack_frame_length pops. *)
CallEndFrame(t, res) ==
    /\ ExitTurn(t, "end_stack_frame")
    /\ res \in BodyOf(t)
    /\ LET second_res == end_stack_frame(STACKS[t], hist[t][1].self.stack_frame_length)
       IN  /\ STACKS' = [STACKS EXCEPT ![t] = second_res.vec]
           /\ ExitNext(t, res, Some(second_res.res))
    /\ UNCHANGED <<gcVars, envVars, held>>

(* The functions of this run take mandatory and optional parameters. *)
ExitArgLists == SeqsUpTo({ Sym("a"), Sym("b"), OPTIONAL }, MaxFrame)

NextExit ==
    \E t \in Threads :
        \/ /\ CallStart(t)
           /\ \E arglist \in ExitArgLists, special \in BOOLEAN, args \in CallArgs,
                 evalOk \in BOOLEAN :
                 /\ special => evalOk
                 /\ CallEnter(t, Function_new(arglist, special, GlobalEnv), args, evalOk)
        \/ \E res \in BodyResults : CallLeaveEnv(t, res) \/ CallEndFrame(t, res)

SpecExit == InitCall /\ [][NextExit]_vars

----------------------------------------------------------------------------
(* SpecRef: one application in evaluate-to-reference mode, as Cons's       *)
(* eval_to_reference makes it for the place of an assignment.              *)

(* Function::call_to_reference, lines 83-91: the arguments of a function   *)
(* that is not a special form are evaluated in order and consed up.        *)
call_to_reference_args(args) == eval_args_onto(args, << >>)

(* Reference::try_convert_from on what the body returned. *)
Reference_try_convert_from(obj) ==
    IF obj.tag \in {"Reference", "HeapReference"} THEN Ok(obj) ELSE Err(TypeError)

(* call_to_reference up to the start of the body. *)
CallRefEnter(t, self, args, evalOk) ==
    /\ LET evaled == IF ~should_evaluate_args(self) THEN Ok(args)
                     ELSE IF evalOk THEN Ok(call_to_reference_args(args))
                     ELSE Err(UnboundSymbolError(Sym("a")))
           r == build_env(self, t, STACKS[t], evaled.val)
       IN  IF ~evaled.ok
           THEN /\ NoteCall(t, "call", self, args, evaled, evaled)
                /\ CallOver
                /\ UNCHANGED <<STACKS, heap, JUST_ALLOCATED, ENV_REF_COUNTS, ENV_STACK, tpc>>
           ELSE IF ~r.res.ok
           THEN /\ STACKS' = [STACKS EXCEPT ![t] = r.vec]
                /\ NoteCall(t, "call", self, args, evaled, r.res)
                /\ CallOver
                /\ UNCHANGED <<heap, JUST_ALLOCATED, ENV_REF_COUNTS, ENV_STACK, tpc>>
           ELSE \E a \in alloc_one(heap) :
                  LET nmspc == Namespace_create_stack_env(r.res.val, self.env)
                      al == allocate(heap, JUST_ALLOCATED, a, nmspc, "Namespace")
                  IN  /\ STACKS' = [STACKS EXCEPT ![t] = r.vec]
                      /\ heap' = al.heap
                      /\ JUST_ALLOCATED' = al.chan
                      /\ ENV_REF_COUNTS' = add_ref_to(ENV_REF_COUNTS, al.ret)
                      /\ ENV_STACK' = [ENV_STACK EXCEPT ![t] = Append(@, al.ret)]
                      /\ tpc' = [tpc EXCEPT ![t] = [pc |-> "body", s |-> None]]
                      /\ NoteCall(t, "enter", self, args, evaled, Ok(al.ret))
                      /\ UNCHANGED ghost
    /\ UNCHANGED <<ALLOCED_OBJECTS, regLock, THE_GC_MARK, GC_THRESHOLD, gcpc,
                   gcLocal, parkToken, allocCt, SYMBOLS_HEAP, symLock, held>>

(* call_to_reference from the end of the body: with_env pops the env,      *)
(* end_stack_frame pops the frame, and the object the body returned must   *)
(* be a reference.                                                         *)
CallRefExit(t, res) ==
    /\ tpc[t].pc = "body"
    /\ LET h == hist[t][1]
           second_res == end_stack_frame(STACKS[t], h.self.stack_frame_length)
           obj == IF second_res.res.ok THEN res ELSE second_res.res
       IN  /\ ENV_STACK' = [ENV_STACK EXCEPT ![t] = Front(@)]
           /\ ENV_REF_COUNTS' = remove_ref_to(ENV_REF_COUNTS, current_env(t))
           /\ STACKS' = [STACKS EXCEPT ![t] = second_res.vec]
           /\ hist' = [hist EXCEPT ![t] =
                         << [h EXCEPT !.op = "call",
                                      !.body = Some(res),
                                      !.ret = IF obj.ok
                                              THEN Reference_try_convert_from(obj.val)
                                              ELSE obj] >>]
    /\ tpc' = [tpc EXCEPT ![t] = Running]
    /\ CallOver
    /\ UNCHANGED <<gcVars, SYMBOLS_HEAP, symLock, held>>

RefBodyResults == BodyResults \cup { Ok(Reference(0, 0)) }

NextRef ==
    \E t \in Threads :
        \/ /\ CallStart(t)
           /\ \E arglist \in ExitArgLists, special \in BOOLEAN, args \in CallArgs,
                 evalOk \in BOOLEAN :
                 /\ special => evalOk
                 /\ CallRefEnter(t, Function_new(arglist, special, GlobalEnv), args, evalOk)
        \/ \E res \in RefBodyResults : CallRefExit(t, res)

SpecRef == InitCall /\ [][NextRef]_vars

----------------------------------------------------------------------------
(* SpecBoot: the process after make_builtins_once has returned and the     *)
(* allocator thread has registered what it allocated: the default global   *)
(* env binds the symbol f to a builtin function.  No thread has used its   *)
(* ENV_STACK yet, so ENV_REF_COUNTS is empty; the collector thread has     *)
(* been spawned by the first unpark and is about to run its first pass.    *)
(* Threads allocate boxed values, push and pop them, and initialise their  *)
(* ENV_STACK when they first evaluate.                                     *)

BuiltinF == MaxAddr + 4

(* thread_local ENV_STACK, on the first use by the thread:                 *)
(* add_ref_to(default_global_env()), vec![g_e].                            *)
EnvStackInit(t) ==
    /\ ENV_STACK[t] = << >>
    /\ ENV_REF_COUNTS' = add_ref_to(ENV_REF_COUNTS, GlobalEnv)
    /\ ENV_STACK' = [ENV_STACK EXCEPT ![t] = << GlobalEnv >>]
    /\ UNCHANGED <<stackVars, gcVars, SYMBOLS_HEAP, symLock, thrVars, ghost>>

InitBoot ==
    /\ STACKS = << >>
    /\ hist = [t \in Threads |-> <<>>]
    /\ heap = [a \in Addr \cup StaticAddr \cup {BuiltinF} |->
                 CASE a = GlobalEnv -> Namespace_Heap([x \in {SymF} |-> SlotF], None)
                   [] a = SymF      -> Symbol_new("f")
                   [] a = SlotF     -> HeapObject_around(Pointer("Function", BuiltinF))
                   [] a = BuiltinF  -> [Function_make_lambda(GlobalEnv)
                                           EXCEPT !.name = Some(SymF)]
                   [] OTHER         -> Free]
    /\ ALLOCED_OBJECTS = << Pointer("Symbol", SymF), Pointer("Namespace", GlobalEnv),
                            Pointer("Function", BuiltinF), Pointer("HeapObject", SlotF) >>
    /\ JUST_ALLOCATED = <<>>
    /\ regLock = NoOwner
    /\ THE_GC_MARK = 0
    /\ GC_THRESHOLD = INITIAL_GC_THRESHOLD
    /\ gcpc = [c \in GcCallers |-> IF c = Collector THEN "lock" ELSE "idle"]
    /\ gcLocal = [c \in GcCallers |-> NoPass]
    /\ parkToken = TRUE
    /\ allocCt = None
    /\ SYMBOLS_HEAP = [x \in {"f"} |-> SymF]
    /\ symLock = None
    /\ ENV_REF_COUNTS = << >>
    /\ ENV_STACK = [t \in Threads |-> << >>]
    /\ InitThr
    /\ ghost = InitGhost

NextBoot ==
    \/ \E t \in Threads :
          EnvStackInit(t) \/ Allocate(t) \/ PushHeld(t) \/ Pop(t) \/ Forget(t)
    \/ AllocRegister
    \/ AllocUnpark
    \/ \E c \in GcCallers : GcStep(c)

SpecBoot == InitBoot /\ [][NextBoot]_vars

----------------------------------------------------------------------------
(* SpecParent: threads nesting with_env and in_parent_env, as the special  *)
(* forms do (Function::call runs the body of cond, let or setf inside      *)
(* with_env, and the body evaluates its forms inside in_parent_env), on    *)
(* evaluation stacks that are empty, one below capacity or at capacity.    *)
(* hist[t] is the stack of the calls thread t is inside, the innermost     *)
(* last; ghost.last is the call that returned in the last step, if one     *)
(* did, with the stacks and the count at its entry.                        *)

EnvPool == Addr
ParentDepths == { 0, STACK_CAPACITY - 1, STACK_CAPACITY }

CountOf(counts, env) == IF env \in DOMAIN counts THEN counts[env] ELSE 0

(* The calls of with_env for env that threads are inside. *)
WithEnvCalls(env) ==
    UNION { { <<t, i>> : i \in { j \in DOMAIN hist[t] :
                                   hist[t][j].op = "with_env" /\ hist[t][j].env = env } } :
            t \in Threads }

(* A call as it is entered: the stacks of the thread, the count of env    *)
(* and how many calls of with_env for env are in progress.                 *)
Entered(t, op, env) ==
    [op |-> op, env |-> env, t |-> t, penv |-> ENV_STACK[t], pre |-> STACKS[t],
     count |-> CountOf(ENV_REF_COUNTS, env), calls |-> Cardinality(WithEnvCalls(env))]

Returned(call, res) ==
    [op |-> call.op, env |-> call.env, t |-> call.t, penv |-> call.penv,
     pre |-> call.pre, count |-> call.count, calls |-> call.calls, ret |-> res]

ParentStart(t) ==
    /\ tpc[t] = Running
    /\ ghost.ops < MaxOps
    /\ Turn(t)

(* with_env up to fun(): add_ref_to(env), ENV_STACK.push(env). *)
ParWithEnvEnter(t, env) ==
    /\ ParentStart(t)
    /\ ENV_STACK[t] # << >>
    /\ ENV_REF_COUNTS' = add_ref_to(ENV_REF_COUNTS, env)
    /\ ENV_STACK' = [ENV_STACK EXCEPT ![t] = Append(@, env)]
    /\ hist' = [hist EXCEPT ![t] = Append(@, Entered(t, "with_env", env))]
    /\ ghost' = Started([ghost EXCEPT !.ops = @ + 1, !.last = None], t)
    /\ UNCHANGED <<STACKS, gcVars, SYMBOLS_HEAP, symLock, thrVars>>

(* with_env after fun(): ENV_STACK.pop(), which leaves an empty stack      *)
(* empty, and remove_ref_to(env).                                          *)
ParWithEnvExit(t, res) ==
    /\ tpc[t] = Running
    /\ hist[t] # << >>
    /\ Last(hist[t]).op = "with_env"
    /\ ENV_STACK' = [ENV_STACK EXCEPT ![t] = IF @ = << >> THEN @ ELSE Front(@)]
    /\ ENV_REF_COUNTS' = remove_ref_to(ENV_REF_COUNTS, Last(hist[t]).env)
    /\ hist' = [hist EXCEPT ![t] = Front(@)]
    /\ ghost' = [ghost EXCEPT !.last = Some(Returned(Last(hist[t]), res))]
    /\ UNCHANGED <<STACKS, gcVars, SYMBOLS_HEAP, symLock, thrVars>>

(* in_parent_env up to fun(): the current env is popped off ENV_STACK and  *)
(* pushed on the evaluation stack; when the push fails, the `?` returns    *)
(* the error at once.  The error object made for it is not an environment  *)
(* and is left out of the heap of this run.                                *)
ParentEnter(t) ==
    /\ ParentStart(t)
    /\ hist[t] # << >>
    /\ Len(ENV_STACK[t]) > 1
    /\ LET env == Last(ENV_STACK[t])
           r == push(t, STACKS[t], Pointer("Namespace", env))
       IN  /\ ENV_STACK' = [ENV_STACK EXCEPT ![t] = Front(@)]
           /\ STACKS' = [STACKS EXCEPT ![t] = r.vec]
           /\ IF r.res.ok
              THEN /\ hist' = [hist EXCEPT ![t] =
                                 Append(@, Entered(t, "in_parent_env", env))]
                   /\ ghost' = Started([ghost EXCEPT !.ops = @ + 1, !.last = None], t)
              ELSE /\ hist' = hist
                   /\ ghost' = Started([ghost EXCEPT
                                  !.ops = @ + 1,
                                  !.last = Some(Returned(Entered(t, "in_parent_env", env),
                                                         r.res))],
                                        t)
    /\ UNCHANGED <<gcVars, SYMBOLS_HEAP, symLock, ENV_REF_COUNTS, thrVars>>

(* in_parent_env after fun(): stack::pop(), and what it returns is pushed  *)
(* on ENV_STACK.  The body has left the evaluation stack as it found it.   *)
ParentExit(t, res) ==
    /\ tpc[t] = Running
    /\ hist[t] # << >>
    /\ Last(hist[t]).op = "in_parent_env"
    /\ LET r == pop(STACKS[t])
       IN  /\ STACKS' = [STACKS EXCEPT ![t] = r.vec]
           /\ ENV_STACK' = [ENV_STACK EXCEPT ![t] =
                               IF r.res.ok THEN Append(@, r.res.val.val) ELSE @]
    /\ hist' = [hist EXCEPT ![t] = Front(@)]
    /\ ghost' = [ghost EXCEPT !.last = Some(Returned(Last(hist[t]), res))]
    /\ UNCHANGED <<gcVars, SYMBOLS_HEAP, symLock, ENV_REF_COUNTS, thrVars>>

InitParent ==
    /\ \E d \in ParentDepths : STACKS = [t \in Threads |-> Filled(d)]
    /\ hist = [t \in Threads |-> <<>>]
    /\ heap = [a \in Addr \cup StaticAddr |->
                 CASE a = GlobalEnv -> Namespace_Heap([x \in {SymF} |-> SlotF], None)
                   [] a = SymF      -> Symbol_new("f")
                   [] a = SlotF     -> HeapObject_around(uninitialized)
                   [] OTHER         -> Namespace_Heap(<< >>, Some(GlobalEnv))]
    /\ ALLOCED_OBJECTS = << Pointer("Symbol", SymF), Pointer("Namespace", GlobalEnv),
                            Pointer("HeapObject", SlotF) >>
                            \o [a \in Addr |-> Pointer("Namespace", a)]
    /\ JUST_ALLOCATED = <<>>
    /\ regLock = NoOwner
    /\ THE_GC_MARK = 0
    /\ GC_THRESHOLD = INITIAL_GC_THRESHOLD
    /\ gcpc = [c \in GcCallers |-> IF c = Collector THEN "unspawned" ELSE "idle"]
    /\ gcLocal = [c \in GcCallers |-> NoPass]
    /\ parkToken = FALSE
    /\ allocCt = None
    /\ SYMBOLS_HEAP = [x \in {"f"} |-> SymF]
    /\ symLock = None
    /\ ENV_REF_COUNTS = [x \in {GlobalEnv} |-> NThreads]
    /\ ENV_STACK = [t \in Threads |-> << GlobalEnv >>]
    /\ InitThr
    /\ ghost = [ops |-> 0, started |-> 0, last |-> None]

NextParent ==
    \E t \in Threads :
        \/ \E env \in EnvPool : ParWithEnvEnter(t, env)
        \/ \E res \in BodyResults : ParWithEnvExit(t, res)
        \/ ParentEnter(t)
        \/ \E res \in BodyResults : ParentExit(t, res)

SpecParent == InitParent /\ [][NextParent]_vars

----------------------------------------------------------------------------
(* SpecScope: a thread evaluating nested `let` forms and, at any depth,    *)
(* symbols, `cond` forms and `setf` forms.  The global namespace binds x   *)
(* and y; z is bound nowhere.  Every action is one whole evaluation, or    *)
(* the part of `let` up to its body or from the end of its body.           *)

(* A reference to the slot of a boxed value (Reference::from(h)), and the  *)
(* value a reference of either kind points at.                             *)
Reference_from_HeapObject(a) == [tag |-> "HeapReference", val |-> a]

deref(stacks, h, r) ==
    IF r.tag = "HeapReference" THEN h[r.val].val ELSE deref_slot(stacks, r)

(* *place = value, through a reference of either kind. *)
deref_mut_assign(stacks, h, r, v) ==
    IF r.tag = "HeapReference"
    THEN [stacks |-> stacks, heap |-> [h EXCEPT ![r.val].val = v]]
    ELSE [stacks |-> [stacks EXCEPT ![r.val[1]].buf[r.val[2] + 1] = v], heap |-> h]

(* Namespace::get_sym_ref: the table of this namespace (a heap namespace   *)
(* stores boxes, a stack namespace stores references), or else the         *)
(* parent's get_sym_ref.                                                   *)
get_sym_ref_own_table_only(h, n, sym) ==
    IF sym \in DOMAIN h[n].table
    THEN Some(IF h[n].variant = "Stack" THEN h[n].table[sym]
              ELSE Reference_from_HeapObject(h[n].table[sym]))
    ELSE None

RECURSIVE get_sym_ref(_, _, _)
get_sym_ref(h, n, sym) ==
    IF sym \in DOMAIN h[n].table
    THEN Some(IF h[n].variant = "Stack" THEN h[n].table[sym]
              ELSE Reference_from_HeapObject(h[n].table[sym]))
    ELSE IF h[n].parent = None THEN None
    ELSE get_sym_ref(h, CHOOSE p \in h[n].parent : TRUE, sym)

(* lookup_symbol: current_env().get_sym_ref(sym).ok_or(UnboundSymbolError). *)
lookup_symbol(h, env, sym) ==
    LET r == get_sym_ref(h, env, sym)
    IN  IF r = None THEN Err(UnboundSymbolError(sym))
        ELSE Ok(CHOOSE x \in r : TRUE)

(* A symbol is resolved by lookup_symbol in the current env: to its slot   *)
(* by eval_to_reference, to the value in its slot by evaluate.             *)
Symbol_eval_to_reference(h, env, s) == lookup_symbol(h, env, s)

Symbol_evaluate(stacks, h, env, s) ==
    LET r == lookup_symbol(h, env, s)
    IN  IF r.ok THEN Ok(deref(stacks, h, r.val)) ELSE r

(* Evaluate::evaluate of a form that is a symbol (looked up) or a number   *)
(* (self-evaluating).                                                      *)
evaluate(stacks, h, env, form) ==
    IF form.tag = "Symbol" THEN Symbol_evaluate(stacks, h, env, form)
    ELSE Ok(form)

(* The part of the state an evaluation of thread t works on. *)
Machine(t) ==
    [stacks |-> STACKS, heap |-> heap, chan |-> JUST_ALLOCATED,
     counts |-> ENV_REF_COUNTS, envs |-> ENV_STACK[t]]

Commit(t, m) ==
    /\ STACKS' = m.stacks
    /\ heap' = m.heap
    /\ JUST_ALLOCATED' = m.chan
    /\ ENV_REF_COUNTS' = m.counts
    /\ ENV_STACK' = [ENV_STACK EXCEPT ![t] = m.envs]

(* with_env: the env becomes the current env and gains a reference; at the *)
(* end it is popped and loses the reference.                               *)
with_env_enter(m, env) ==
    [m EXCEPT !.counts = add_ref_to(@, env), !.envs = Append(@, env)]

with_env_exit(m) ==
    [m EXCEPT !.counts = remove_ref_to(@, Last(m.envs)), !.envs = Front(@)]

(* Function::call of a special form whose arguments fit its arglist, up to *)
(* its body and from the end of its body.                                  *)
Function_call_enter(self, t, m, args) ==
    LET r  == build_env(self, t, m.stacks[t], args)
        a  == CHOOSE x \in alloc_one(m.heap) : TRUE
        al == allocate(m.heap, m.chan, a,
                       Namespace_create_stack_env(r.res.val, self.env), "Namespace")
    IN  with_env_enter([m EXCEPT !.stacks[t] = r.vec, !.heap = al.heap,
                                 !.chan = al.chan], al.ret)

Function_call_exit(self, t, m) ==
    LET m1 == with_env_exit(m)
    IN  [m1 EXCEPT !.stacks[t] = end_stack_frame(@, self.stack_frame_length).vec]

(* in_parent_env: the current env is popped off the env stack and pushed   *)
(* on the evaluation stack; afterwards it is popped from there and pushed  *)
(* back.                                                                   *)
in_parent_env_enter(t, m) ==
    [m EXCEPT !.stacks[t] = push(t, @, Pointer("Namespace", Last(m.envs))).vec,
              !.envs = Front(@)]

in_parent_env_exit(t, m) ==
    LET r == pop(m.stacks[t])
    IN  [m EXCEPT !.stacks[t] = r.vec, !.envs = Append(@, r.res.val.val)]

(* Namespace::create_let_env(&[(sym, v)]): one box per binding, in a heap  *)
(* namespace whose parent is the current env.                              *)
create_let_env(m, sym, v) ==
    LET a1  == CHOOSE x \in alloc_one(m.heap) : TRUE
        al1 == allocate(m.heap, m.chan, a1, HeapObject_around(v), "HeapObject")
        a2  == CHOOSE x \in alloc_one(al1.heap) : TRUE
        al2 == allocate(al1.heap, al1.chan, a2,
                        Namespace_Heap((sym :> al1.ret), Some(Last(m.envs))),
                        "Namespace")
    IN  [m |-> [m EXCEPT !.heap = al2.heap, !.chan = al2.chan], ret |-> al2.ret]

(* The special forms, as make_builtins creates them: their env is the      *)
(* default global env.                                                     *)
LET_FORM  == Function_new(<< Sym("bindings"), REST, Sym("body") >>, TRUE, GlobalEnv)
COND_FORM == Function_new(<< REST, Sym("clauses") >>, TRUE, GlobalEnv)
SETF_FORM == Function_new(<< Sym("place"), Sym("value") >>, TRUE, GlobalEnv)

SlotX == MaxAddr + 4
SlotY == MaxAddr + 5
ScopeAddr == 1 .. (MaxAddr + 5 + 3 * MaxOps)

ScopeSyms  == { Sym("x"), Sym("y"), Sym("z") }
LetForms   == { UnsignedInt(1), Sym("x"), Sym("z") }
SetfForms  == { UnsignedInt(2), Sym("x") }

(* The open lets of the run, innermost last: the symbol each binds, the    *)
(* value it bound it to, and what the symbol evaluated to outside.         *)
NoteScope(t, op, arg, form, ret) ==
    hist' = [hist EXCEPT ![t] =
                << [op |-> op, arg |-> arg, form |-> form, ret |-> ret,
                    pre |-> STACKS, penv |-> ENV_STACK[t], pheap |-> heap] >>]

ScopeStart(t) ==
    /\ tpc[t] = Running
    /\ ghost.ops < MaxOps
    /\ Turn(t)
    /\ Len(STACKS[t].buf) + 4 <= STACK_CAPACITY

ScopeRest == UNCHANGED <<ALLOCED_OBJECTS, regLock, THE_GC_MARK, GC_THRESHOLD, gcpc,
                         gcLocal, parkToken, allocCt, SYMBOLS_HEAP, symLock, held, tpc>>

(* (let ((sym form)) ...) up to the start of its body. *)
ScopeLet(t, sym, form) ==
    /\ ScopeStart(t)
    /\ \E m1 \in { Function_call_enter(LET_FORM, t, Machine(t),
                         << Object_from_List(<< Object_from_List(<< sym, form >>) >>) >>) } :
       \E m2 \in { in_parent_env_enter(t, m1) } :
       \E v  \in { evaluate(m2.stacks, m2.heap, Last(m2.envs), form) } :
       \E m3 \in { in_parent_env_exit(t, m2) } :
       \E outer \in { evaluate(STACKS, heap, current_env(t), sym) } :
           IF ~v.ok
           THEN /\ Commit(t, Function_call_exit(LET_FORM, t, m3))
                /\ NoteScope(t, "let_error", sym, form, v)
                /\ ghost' = [ghost EXCEPT !.ops = @ + 1]
           ELSE \E c \in { create_let_env(m3, sym, v.val) } :
                    /\ Commit(t, with_env_enter(c.m, c.ret))
                    /\ NoteScope(t, "let", sym, form, v)
                    /\ ghost' = [ghost EXCEPT
                                   !.ops = @ + 1,
                                   !.lets = Append(@, [sym |-> sym, val |-> v.val,
                                                       outer |-> outer,
                                                       assigned |-> {}])]
    /\ ScopeRest

(* The end of the body of the innermost open let. *)
ScopeLetExit(t) ==
    /\ tpc[t] = Running
    /\ Turn(t)
    /\ ghost.lets # << >>
    /\ \E m1 \in { with_env_exit(Machine(t)) } :
          Commit(t, Function_call_exit(LET_FORM, t, m1))
    /\ NoteScope(t, "let_exit", Last(ghost.lets).sym, nil, Ok(nil))
    /\ ghost' = [ghost EXCEPT !.lets = Front(@), !.closed = << Last(ghost.lets) >>]
    /\ ScopeRest

(* lookup_symbol(sym) in the current env. *)
ScopeLookup(t, sym) ==
    /\ ScopeStart(t)
    /\ NoteScope(t, "lookup", sym, nil, lookup_symbol(heap, current_env(t), sym))
    /\ ghost' = [ghost EXCEPT !.ops = @ + 1]
    /\ UNCHANGED <<STACKS, heap, JUST_ALLOCATED, ENV_REF_COUNTS, ENV_STACK>>
    /\ ScopeRest

(* The form sym, evaluated in the current env. *)
ScopeEval(t, sym) ==
    /\ ScopeStart(t)
    /\ NoteScope(t, "eval", sym, sym, evaluate(STACKS, heap, current_env(t), sym))
    /\ ghost' = [ghost EXCEPT !.ops = @ + 1]
    /\ UNCHANGED <<STACKS, heap, JUST_ALLOCATED, ENV_REF_COUNTS, ENV_STACK>>
    /\ ScopeRest

(* (cond (1 sym)): the clauses are evaluated inside in_parent_env. *)
ScopeCond(t, sym) ==
    /\ ScopeStart(t)
    /\ \E m1 \in { Function_call_enter(COND_FORM, t, Machine(t),
                         << Object_from_List(<< UnsignedInt(1), sym >>) >>) } :
       \E m2 \in { in_parent_env_enter(t, m1) } :
       \E v  \in { evaluate(m2.stacks, m2.heap, Last(m2.envs), sym) } :
       \E m3 \in { in_parent_env_exit(t, m2) } :
           /\ Commit(t, Function_call_exit(COND_FORM, t, m3))
           /\ NoteScope(t, "cond", sym, sym, v)
    /\ ghost' = [ghost EXCEPT !.ops = @ + 1]
    /\ ScopeRest

(* (setf place form): the place is resolved by eval_to_reference in the    *)
(* env of the call of setf, the value is evaluated inside in_parent_env.   *)
ScopeSetf(t, place, form) ==
    /\ ScopeStart(t)
    /\ \E m1 \in { Function_call_enter(SETF_FORM, t, Machine(t), << place, form >>) } :
       \E p  \in { Symbol_eval_to_reference(m1.heap, Last(m1.envs), place) } :
       \E m2 \in { in_parent_env_enter(t, m1) } :
       \E v  \in { evaluate(m2.stacks, m2.heap, Last(m2.envs), form) } :
       \E m3 \in { in_parent_env_exit(t, m2) } :
           IF ~p.ok
           THEN /\ Commit(t, Function_call_exit(SETF_FORM, t, m1))
                /\ NoteScope(t, "setf", place, form, p)
                /\ ghost' = [ghost EXCEPT !.ops = @ + 1]
           ELSE IF ~v.ok
           THEN /\ Commit(t, Function_call_exit(SETF_FORM, t, m3))
                /\ NoteScope(t, "setf", place, form, v)
                /\ ghost' = [ghost EXCEPT !.ops = @ + 1]
           ELSE \E w \in { deref_mut_assign(m3.stacks, m3.heap, p.val, v.val) } :
                /\ Commit(t, Function_call_exit(SETF_FORM, t,
                                [m3 EXCEPT !.stacks = w.stacks, !.heap = w.heap]))
                /\ NoteScope(t, "setf", place, form, v)
                /\ ghost' = [ghost EXCEPT
                               !.ops = @ + 1,
                               !.lets = [i \in DOMAIN @ |->
                                           [@[i] EXCEPT !.assigned = @ \cup {place}]]]
    /\ ScopeRest

InitScopeVars ==
    /\ STACKS = [t \in Threads |-> Filled(0)]
    /\ hist = [t \in Threads |-> <<>>]
    /\ heap = [a \in ScopeAddr |->
                 CASE a = GlobalEnv -> Namespace_Heap((Sym("x") :> SlotX) @@
                                                      (Sym("y") :> SlotY), None)
                   [] a = SymF      -> Symbol_new("f")
                   [] a = SlotF     -> HeapObject_around(uninitialized)
                   [] a = SlotX     -> HeapObject_around(UnsignedInt(0))
                   [] a = SlotY     -> HeapObject_around(UnsignedInt(7))
                   [] OTHER         -> Free]
    /\ ALLOCED_OBJECTS = << Pointer("Symbol", SymF), Pointer("Namespace", GlobalEnv),
                            Pointer("HeapObject", SlotF), Pointer("HeapObject", SlotX),
                            Pointer("HeapObject", SlotY) >>
    /\ JUST_ALLOCATED = <<>>
    /\ regLock = NoOwner
    /\ THE_GC_MARK = 0
    /\ GC_THRESHOLD = INITIAL_GC_THRESHOLD
    /\ gcpc = [c \in GcCallers |-> IF c = Collector THEN "unspawned" ELSE "idle"]
    /\ gcLocal = [c \in GcCallers |-> NoPass]
    /\ parkToken = FALSE
    /\ allocCt = None
    /\ SYMBOLS_HEAP = [x \in {"f"} |-> SymF]
    /\ symLock = None
    /\ ENV_REF_COUNTS = [x \in {GlobalEnv} |-> NThreads]
    /\ ENV_STACK = [t \in Threads |-> << GlobalEnv >>]
    /\ InitThr

InitScope ==
    /\ InitScopeVars
    /\ ghost = [ops |-> 0, started |-> 0, lets |-> << >>, closed |-> << >>]

NextScope ==
    \E t \in Threads :
        \/ \E sym \in {Sym("x"), Sym("y")}, form \in LetForms : ScopeLet(t, sym, form)
        \/ \E sym \in ScopeSyms : ScopeLookup(t, sym)
        \/ \E sym \in ScopeSyms : ScopeEval(t, sym)
        \/ \E sym \in ScopeSyms : ScopeCond(t, sym)
        \/ \E place \in ScopeSyms, form \in SetfForms : ScopeSetf(t, place, form)
        \/ ScopeLetExit(t)

SpecScope == InitScope /\ [][NextScope]_vars

----------------------------------------------------------------------------
(* SpecTag: the 64-bit word of an Object, and the forms that read and      *)
(* write its tags.  A word is the set of the positions of its one bits, so *)
(* that ^ is the symmetric difference, & the intersection and & ! the      *)
(* difference.  A run makes one conversion to an Object and back, or       *)
(* evaluates one catch-error form.                                         *)

XOR(a, b) == (a \ b) \cup (b \ a)

(* n << shift, for a small n. *)
ToBits(n, shift) == { i + shift : i \in { j \in 0 .. 15 : (n \div (2 ^ j)) % 2 = 1 } }

OBJECT_TAG_MASK    == 48 .. 51
NAN_MASK           == 52 .. 62
IMMEDIATE_TAG_MASK == 32 .. 47

(* The variants of the three tag enums, with their discriminants.  The     *)
(* discriminant of ObjectTag::Error is fixed by the build.                 *)
ObjectTag(n)    == [fam |-> "ObjectTag", n |-> n]
ImmediateTag(n) == [fam |-> "ImmediateTag", n |-> n]
ErrorTag(n)     == [fam |-> "ErrorTag", n |-> n]

ObjectTag_Cons      == ObjectTag(0)
ObjectTag_Symbol    == ObjectTag(1)
ObjectTag_Immediate == ObjectTag(2)
ObjectTag_Reference == ObjectTag(3)
ObjectTag_Error     == ObjectTag(ghost.errorTag)

ImmediateTag_Bool          == ImmediateTag(0)
ImmediateTag_Integer       == ImmediateTag(1)
ImmediateTag_SpecialMarker == ImmediateTag(3)

ErrorTag_Signaling == ErrorTag(0)
ErrorTag_Quiet     == ErrorTag(1)

(* impl From<tag> for u64 *)
into_u64(tg) ==
    CASE tg.fam = "ObjectTag"    -> ToBits(tg.n, 48)
      [] tg.fam = "ImmediateTag" -> ToBits(tg.n, 32)
      [] tg.fam = "ErrorTag"     -> ToBits(tg.n, 0)

mask_bits(fam) ==
    CASE fam = "ObjectTag"    -> OBJECT_TAG_MASK
      [] fam = "ImmediateTag" -> IMMEDIATE_TAG_MASK
      [] fam = "ErrorTag"     -> 0 .. 2

parent_mask(fam) ==
    IF fam = "ObjectTag" THEN NAN_MASK ELSE XOR(NAN_MASK, OBJECT_TAG_MASK)

(* PointerTag::tag, is_of_type and untag. *)
RECURSIVE parent_tag(_)
tag(tg, ptr) == XOR(XOR(into_u64(tg), ptr), parent_tag(tg.fam))

parent_tag(fam) ==
    CASE fam = "ObjectTag"    -> NAN_MASK
      [] fam = "ImmediateTag" -> tag(ObjectTag_Immediate, {})
      [] fam = "ErrorTag"     -> tag(ObjectTag_Error, {})

is_correct_parent(fam, ptr) == (ptr \cap parent_mask(fam)) = parent_tag(fam)
tag_bits_match(tg, ptr) == (ptr \cap mask_bits(tg.fam)) = into_u64(tg)
is_of_type(tg, ptr) == is_correct_parent(tg.fam, ptr) /\ tag_bits_match(tg, ptr)

untag(tg, ptr) == ptr \ into_u64(tg)

(* Object::from of a bool, an i32 (as its 32-bit pattern), the             *)
(* uninitialized marker and a pointer; and from_unchecked of each.         *)
Object_from_bool(b) == tag(ImmediateTag_Bool, IF b THEN {0} ELSE {})
Object_from_i32(n)  == tag(ImmediateTag_Integer, n)
Object_from_SpecialMarker(s) == tag(ImmediateTag_SpecialMarker, s)
Object_from_ptr(tg, p) == tag(tg, p)

PointerTagOf(kind) ==
    CASE kind = "Cons"      -> ObjectTag_Cons
      [] kind = "Symbol"    -> ObjectTag_Symbol
      [] kind = "Reference" -> ObjectTag_Reference

bool_from_unchecked(obj) == untag(ImmediateTag_Bool, obj) # {}
i32_from_unchecked(obj)  == untag(ImmediateTag_Integer, obj) \cap (0 .. 31)
SpecialMarker_from_unchecked(obj) == untag(ImmediateTag_SpecialMarker, obj) \cap (0 .. 31)
ptr_from_unchecked(tg, obj) == untag(tg, obj)

Uninitialized == {}

from_value(kind, v) ==
    CASE kind = "bool"   -> Object_from_bool(v)
      [] kind = "i32"    -> Object_from_i32(v)
      [] kind = "marker" -> Object_from_SpecialMarker(v)
      [] OTHER           -> Object_from_ptr(PointerTagOf(kind), v)

from_unchecked(kind, obj) ==
    CASE kind = "bool"   -> bool_from_unchecked(obj)
      [] kind = "i32"    -> i32_from_unchecked(obj)
      [] kind = "marker" -> SpecialMarker_from_unchecked(obj)
      [] OTHER           -> ptr_from_unchecked(PointerTagOf(kind), obj)

(* The values of the run: null and the pointers and numbers made of a few  *)
(* bits, among them 0xdead_beef's lowest and highest.                      *)
PointerKinds == { "Cons", "Symbol", "Reference" }
Pointers == SUBSET {3, 4, 31, 32, 47}
I32s     == SUBSET {0, 1, 30, 31}

(* Object::quiet_error, Object::loud_error, from_unchecked for             *)
(* GcRef<Error>, and Try::into_result for Object.                          *)
quiet_error(e) == tag(ErrorTag_Quiet, e)
loud_error(e)  == tag(ErrorTag_Signaling, e)

GcRef_Error_from_unchecked(obj) ==
    IF is_of_type(ErrorTag_Signaling, obj) THEN untag(ErrorTag_Signaling, obj)
    ELSE untag(ErrorTag_Quiet, obj)

into_result(obj) ==
    IF is_of_type(ErrorTag_Signaling, obj) THEN Err(GcRef_Error_from_unchecked(obj))
    ELSE Ok(obj)

(* The pointer to the heap object at an address: objects are aligned to 8. *)
into_ptr(a) == ToBits(a, 3)

(* Error::allocate(e). *)
Error_allocate(m, e) ==
    LET a == CHOOSE x \in alloc_one(m.heap) : TRUE
        al == allocate(m.heap, m.chan, a,
                       [kind |-> "Error", gc_marking |-> 0, error |-> e], "Error")
    IN  [m |-> [m EXCEPT !.heap = al.heap, !.chan = al.chan], ret |-> al.ret]

CATCH_ERROR_FORM ==
    Function_new(<< Sym("try"), Sym("bind"), REST, Sym("catch") >>, TRUE, GlobalEnv)

(* The try forms of the run: a number; the unbound symbol z, for which     *)
(* the evaluator allocates an Error and signals it; and                    *)
(* (throw (error 'some-error 'p)), where `error` allocates an Error and    *)
(* returns it quiet and `throw` converts its argument, which is_type       *)
(* accepts, to a GcRef<Error> and signals that.                            *)
TryForms == { "number", "unbound", "throw" }

try_evaluate(m, form) ==
    IF form = "number" THEN [m |-> m, ret |-> Object_from_i32({0, 2}), signalled |-> None]
    ELSE LET e == IF form = "unbound" THEN UnboundSymbolError(Sym("z")) ELSE UserError
             al == Error_allocate(m, e)
         IN  [m |-> al.m,
              ret |-> IF form = "unbound" THEN loud_error(into_ptr(al.ret))
                      ELSE loud_error(GcRef_Error_from_unchecked(
                                          quiet_error(into_ptr(al.ret)))),
              signalled |-> Some(al.ret)]

(* The catch clauses of the run: the catch variable e and a number. *)
CatchClauses == SeqsUpTo({ Sym("e"), UnsignedInt(7) }, 2)

clause_evaluate(m, clause) ==
    IF clause.tag = "Symbol"
    THEN Symbol_evaluate(m.stacks, m.heap, Last(m.envs), clause).val
    ELSE Object_from_i32(ToBits(clause.val, 0))

(* The loop over the catch clauses: res = clause.evaluate()?. *)
RECURSIVE catch_loop(_, _, _, _)
catch_loop(m, catch, res, n) ==
    IF catch = << >> THEN [ret |-> res, evaluated |-> n]
    ELSE LET r == clause_evaluate(m, catch[1])
         IN  IF into_result(r).ok THEN catch_loop(m, Tail(catch), r, n + 1)
             ELSE [ret |-> r, evaluated |-> n + 1]

(* (catch-error try e catch...), whole. *)
CatchError(t, try, catch) ==
    /\ ScopeStart(t)
    /\ ghost.ops = 0
    /\ \E m1 \in { Function_call_enter(CATCH_ERROR_FORM, t, Machine(t),
                                       << UnsignedInt(0), Sym("e") >> \o catch) } :
       \E m2 \in { in_parent_env_enter(t, m1) } :
       \E tr \in { try_evaluate(m2, try) } :
       \E inner \in { IF into_result(tr.ret).ok
                      THEN [m |-> tr.m, env |-> None, quiet |-> None, ret |-> tr.ret]
                      ELSE LET e == into_result(tr.ret).val
                               c == create_let_env(tr.m, Sym("e"), quiet_error(e))
                           IN  [m |-> c.m, env |-> Some(c.ret),
                                quiet |-> Some(quiet_error(e)), ret |-> loud_error(e)] } :
       \E m3 \in { in_parent_env_exit(t, inner.m) } :
       \E out \in { IF into_result(inner.ret).ok
                    THEN [m |-> m3, ret |-> inner.ret, evaluated |-> 0]
                    ELSE LET m4 == with_env_enter(m3, CHOOSE x \in inner.env : TRUE)
                             l  == catch_loop(m4, catch,
                                              loud_error(into_result(inner.ret).val), 0)
                         IN  [m |-> with_env_exit(m4), ret |-> l.ret,
                              evaluated |-> l.evaluated] } :
           /\ Commit(t, Function_call_exit(CATCH_ERROR_FORM, t, out.m))
           /\ hist' = [hist EXCEPT ![t] =
                         << [op |-> "catch-error", try |-> try, catch |-> catch,
                             signalled |-> tr.signalled, tr |-> tr.ret,
                             quiet |-> inner.quiet, env |-> inner.env,
                             evaluated |-> out.evaluated, ret |-> out.ret,
                             pre |-> STACKS, penv |-> ENV_STACK[t]] >>]
    /\ ghost' = [ghost EXCEPT !.ops = @ + 1]
    /\ ScopeRest

(* Object::from(v) of a value, and from_unchecked of the result. *)
TagEncode(t, kind, v) ==
    /\ ScopeStart(t)
    /\ ghost.ops = 0
    /\ hist' = [hist EXCEPT ![t] =
                  << [op |-> "encode", kind |-> kind, val |-> v,
                      obj |-> from_value(kind, v)] >>]
    /\ ghost' = [ghost EXCEPT !.ops = @ + 1]
    /\ UNCHANGED <<STACKS, heap, JUST_ALLOCATED, ENV_REF_COUNTS, ENV_STACK>>
    /\ ScopeRest

TagDecode(t) ==
    /\ Turn(t)
    /\ Len(hist[t]) > 0
    /\ hist[t][1].op = "encode"
    /\ hist' = [hist EXCEPT ![t] =
                  << [op |-> "decode", kind |-> hist[t][1].kind, val |-> hist[t][1].val,
                      obj |-> hist[t][1].obj,
                      back |-> from_unchecked(hist[t][1].kind, hist[t][1].obj)] >>]
    /\ UNCHANGED <<STACKS, heap, JUST_ALLOCATED, ENV_REF_COUNTS, ENV_STACK, ghost>>
    /\ ScopeRest

(* Floatp::is_of_type: a word is a float when its eleven exponent bits are *)
(* not all ones.                                                           *)
Floatp_is_of_type(which, ptr) ==
    IF which = "NaN" THEN (ptr \cap NAN_MASK) = NAN_MASK
    ELSE (ptr \cap NAN_MASK) # NAN_MASK

(* The bit patterns of the floats of the run: f.to_bits() of 0.0, 1.0 and  *)
(* -1.0, of 0.5 and -0.5, of the infinities, and of the NaN a division     *)
(* makes, whose sign the hardware chooses.                                 *)
F64_INFINITY     == NAN_MASK
F64_NEG_INFINITY == NAN_MASK \cup {63}
F64_NAN(sign)    == NAN_MASK \cup {51} \cup (IF sign THEN {63} ELSE {})
F64_HALF         == 53 .. 61

f64_neg(f) == XOR(f, {63})

(* n as u32, for a small n. *)
i32_bits(n) == IF n >= 0 THEN ToBits(n, 0) ELSE (0 .. 31) \ ToBits((0 - n) - 1, 0)

(* impl ops::Div for PhoebeNumber, on small integers: the quotient of the  *)
(* two as f64, flattened to an Integer when it is whole and fits.          *)
PhoebeNumber_div(n, d, sign) ==
    IF d = 0
    THEN [float |-> TRUE,
          bits |-> IF n = 0 THEN F64_NAN(sign)
                   ELSE IF n > 0 THEN F64_INFINITY ELSE F64_NEG_INFINITY]
    ELSE IF n % d = 0
    THEN [float |-> FALSE, bits |-> i32_bits(n \div d)]
    ELSE [float |-> TRUE, bits |-> IF n > 0 THEN F64_HALF ELSE f64_neg(F64_HALF)]

Numerators   == {-1, 0, 1}
Denominators == {0, 1, 2}

(* The tags of the pointer types whose ObjectTag variant the build fixes.  *)
ObjectTag_Namespace  == ObjectTag(ghost.namespaceTag)
ObjectTag_HeapObject == ObjectTag(ghost.heapObjectTag)
ObjectTag_Function   == ObjectTag(ghost.functionTag)

ImmediateTag_UnsignedInt == ImmediateTag(2)

Object_from_f64(f)   == f
Object_from_usize(n) == tag(ImmediateTag_UnsignedInt, n)
Object_from_Reference(r) == tag(ObjectTag_Reference, r)

(* The encoders: Object::from of each type, quiet_error and loud_error. *)
Encoders ==
    { "Float", "Bool", "Integer", "UnsignedInt", "SpecialMarker", "Cons", "Symbol",
      "Reference", "Namespace", "HeapObject", "Function", "QuietError",
      "SignalingError" }

Object_from(enc, v) ==
    CASE enc = "Float"          -> Object_from_f64(v)
      [] enc = "Bool"           -> Object_from_bool(v)
      [] enc = "Integer"        -> Object_from_i32(v)
      [] enc = "UnsignedInt"    -> Object_from_usize(v)
      [] enc = "SpecialMarker"  -> Object_from_SpecialMarker(v)
      [] enc = "Cons"           -> Object_from_ptr(ObjectTag_Cons, v)
      [] enc = "Symbol"         -> Object_from_ptr(ObjectTag_Symbol, v)
      [] enc = "Reference"      -> Object_from_Reference(v)
      [] enc = "Namespace"      -> Object_from_ptr(ObjectTag_Namespace, v)
      [] enc = "HeapObject"     -> Object_from_ptr(ObjectTag_HeapObject, v)
      [] enc = "Function"       -> Object_from_ptr(ObjectTag_Function, v)
      [] enc = "QuietError"     -> quiet_error(v)
      [] enc = "SignalingError" -> loud_error(v)

(* FromObject::is_type of the types ExpandedObject::try_from asks about. *)
ObjectTypes ==
    { "Float", "Cons", "Immediate", "Symbol", "Reference", "Namespace", "HeapObject",
      "Function", "Error" }

is_type(ty, obj) ==
    CASE ty = "Float"      -> Floatp_is_of_type("Float", obj)
      [] ty = "Cons"       -> is_of_type(ObjectTag_Cons, obj)
      [] ty = "Immediate"  -> is_of_type(ObjectTag_Immediate, obj)
      [] ty = "Symbol"     -> is_of_type(ObjectTag_Symbol, obj)
      [] ty = "Reference"  -> is_of_type(ObjectTag_Reference, obj)
      [] ty = "Namespace"  -> is_of_type(ObjectTag_Namespace, obj)
      [] ty = "HeapObject" -> is_of_type(ObjectTag_HeapObject, obj)
      [] ty = "Function"   -> is_of_type(ObjectTag_Function, obj)
      [] ty = "Error"      -> is_of_type(ObjectTag_Error, obj)

(* The type an encoder makes, and the tag below it that tells bool, i32,   *)
(* usize and the marker apart, and a quiet error from a signaling one.     *)
TypeOf(enc) ==
    CASE enc \in { "Bool", "Integer", "UnsignedInt", "SpecialMarker" } -> "Immediate"
      [] enc \in { "QuietError", "SignalingError" } -> "Error"
      [] OTHER -> enc

SubTags ==
    [Bool |-> ImmediateTag_Bool, Integer |-> ImmediateTag_Integer,
     UnsignedInt |-> ImmediateTag_UnsignedInt,
     SpecialMarker |-> ImmediateTag_SpecialMarker,
     QuietError |-> ErrorTag_Quiet, SignalingError |-> ErrorTag_Signaling]

(* impl TryFrom<Object> for ExpandedObject: the variant it returns, Err    *)
(* for a signaling error.                                                  *)
ExpandedObject_try_from(obj) ==
    IF is_of_type(ErrorTag_Signaling, obj) THEN "Err"
    ELSE IF is_type("Float", obj) THEN "Float"
    ELSE IF is_type("Cons", obj) THEN "Cons"
    ELSE IF is_type("Immediate", obj) THEN "Immediate"
    ELSE IF is_type("Symbol", obj) THEN "Symbol"
    ELSE IF is_type("Reference", obj) THEN "Reference"
    ELSE IF is_type("Namespace", obj) THEN "Namespace"
    ELSE IF is_type("HeapObject", obj) THEN "HeapObject"
    ELSE IF is_type("Function", obj) THEN "Function"
    ELSE IF is_type("Error", obj) THEN "QuietError"
    ELSE "unreachable"

(* The variant try_from is to return for what an encoder made. *)
ExpandedOf(enc) ==
    CASE enc = "SignalingError" -> "Err"
      [] enc \in { "Bool", "Integer", "UnsignedInt", "SpecialMarker" } -> "Immediate"
      [] OTHER -> enc

Usizes == SUBSET {0, 1, 31}
F64s   == { {}, 52 .. 61, f64_neg(52 .. 61), F64_HALF }

(* Object::from(v), loud_error(v) or quiet_error(v). *)
TagFrom(t, enc, v) ==
    /\ ScopeStart(t)
    /\ ghost.ops = 0
    /\ hist' = [hist EXCEPT ![t] =
                  << [op |-> "from", enc |-> enc, val |-> v,
                      obj |-> Object_from(enc, v)] >>]
    /\ ghost' = [ghost EXCEPT !.ops = @ + 1]
    /\ UNCHANGED <<STACKS, heap, JUST_ALLOCATED, ENV_REF_COUNTS, ENV_STACK>>
    /\ ScopeRest

(* (/ n d): Object::from(PhoebeNumber::from(n) / PhoebeNumber::from(d)). *)
TagDivide(t, n, d, sign) ==
    /\ ScopeStart(t)
    /\ ghost.ops = 0
    /\ \E q \in { PhoebeNumber_div(n, d, sign) } :
          hist' = [hist EXCEPT ![t] =
                     << [op |-> "from", enc |-> IF q.float THEN "Float" ELSE "Integer",
                         val |-> q.bits,
                         obj |-> Object_from(IF q.float THEN "Float" ELSE "Integer",
                                             q.bits)] >>]
    /\ ghost' = [ghost EXCEPT !.ops = @ + 1]
    /\ UNCHANGED <<STACKS, heap, JUST_ALLOCATED, ENV_REF_COUNTS, ENV_STACK>>
    /\ ScopeRest

(* ExpandedObject::try_from of the Object an encoder made. *)
TagTryFrom(t) ==
    /\ Turn(t)
    /\ Len(hist[t]) > 0
    /\ hist[t][1].op = "from"
    /\ hist' = [hist EXCEPT ![t] =
                  << [op |-> "try_from", enc |-> hist[t][1].enc, val |-> hist[t][1].val,
                      obj |-> hist[t][1].obj,
                      expanded |-> ExpandedObject_try_from(hist[t][1].obj)] >>]
    /\ UNCHANGED <<STACKS, heap, JUST_ALLOCATED, ENV_REF_COUNTS, ENV_STACK, ghost>>
    /\ ScopeRest

(* The discriminants ObjectTag::Error, Namespace, HeapObject and Function  *)
(* can have: those after the variants that have one, each its own.         *)
ErrorDiscriminants == 4 .. 7

InitTag ==
    /\ InitScopeVars
    /\ \E n \in ErrorDiscriminants :
       \E a \in ErrorDiscriminants \ {n} :
       \E b \in ErrorDiscriminants \ {n, a} :
       \E c \in ErrorDiscriminants \ {n, a, b} :
          ghost = [ops |-> 0, started |-> 0, errorTag |-> n, namespaceTag |-> a,
                   heapObjectTag |-> b, functionTag |-> c]

NextTag ==
    \E t \in Threads :
        \/ \E b \in BOOLEAN : TagEncode(t, "bool", b)
        \/ \E n \in I32s : TagEncode(t, "i32", n)
        \/ TagEncode(t, "marker", Uninitialized)
        \/ \E kind \in PointerKinds, p \in Pointers : TagEncode(t, kind, p)
        \/ TagDecode(t)
        \/ \E f \in F64s : TagFrom(t, "Float", f)
        \/ \E b \in BOOLEAN : TagFrom(t, "Bool", b)
        \/ \E n \in I32s : TagFrom(t, "Integer", n)
        \/ \E n \in Usizes : TagFrom(t, "UnsignedInt", n)
        \/ TagFrom(t, "SpecialMarker", Uninitialized)
        \/ \E enc \in Encoders \ { "Float", "Bool", "Integer", "UnsignedInt",
                                   "SpecialMarker" }, p \in Pointers :
              TagFrom(t, enc, p)
        \/ \E n \in Numerators, d \in Denominators, sign \in BOOLEAN :
              TagDivide(t, n, d, sign)
        \/ TagTryFrom(t)
        \/ \E try \in TryForms, catch \in CatchClauses : CatchError(t, try, catch)

SpecTag == InitTag /\ [][NextTag]_vars

----------------------------------------------------------------------------
(* SpecDef: a thread that makes namespaces, asks a namespace for the slot  *)
(* of a symbol with make_sym_ref, calls a function of one parameter, and   *)
(* evaluates lambda and defun forms at top level and inside the call.  The *)
(* global namespace binds x and y; z and g are bound nowhere.              *)

Panic == "Attempt to insert into a stack namespace"

(* HashMap::entry(sym).or_insert_with(..) on a table without sym: the     *)
(* table with the new entry added.                                         *)
entry_or_insert_alone(tbl, sym, a) == [s \in {sym} |-> a]
entry_or_insert(tbl, sym, a) ==
    [s \in DOMAIN tbl \cup {sym} |-> IF s = sym THEN a ELSE tbl[s]]

(* Namespace::make_sym_ref_search_parent: the slot get_sym_ref finds on    *)
(* the chain of parents, or else make_sym_ref's.                           *)
Namespace_make_sym_ref_search_parent(m, n, sym) ==
    LET found == get_sym_ref(m.heap, n, sym)
        own   == IF m.heap[n].variant = "Stack" THEN [m |-> m, ret |-> Err(Panic)]
                 ELSE LET a  == CHOOSE x \in alloc_one(m.heap) : TRUE
                          al == allocate(m.heap, m.chan, a,
                                         HeapObject_around(uninitialized), "HeapObject")
                      IN  [m |-> [m EXCEPT
                                    !.heap = [al.heap EXCEPT ![n].table =
                                                entry_or_insert(@, sym, al.ret)],
                                    !.chan = al.chan],
                           ret |-> Ok(Reference_from_HeapObject(al.ret))]
    IN  IF found # None THEN [m |-> m, ret |-> Ok(CHOOSE r \in found : TRUE)] ELSE own

(* Namespace::make_sym_ref: table.entry(sym).or_insert_with(|| a new box   *)
(* around Object::default()) on a heap namespace, a panic on a stack       *)
(* namespace.  The parent is not looked at.                                *)
Namespace_make_sym_ref(m, n, sym) ==
    IF m.heap[n].variant = "Stack" THEN [m |-> m, ret |-> Err(Panic)]
    ELSE IF sym \in DOMAIN m.heap[n].table
    THEN [m |-> m, ret |-> Ok(Reference_from_HeapObject(m.heap[n].table[sym]))]
    ELSE LET a  == CHOOSE x \in alloc_one(m.heap) : TRUE
             al == allocate(m.heap, m.chan, a,
                            HeapObject_around(uninitialized), "HeapObject")
         IN  [m |-> [m EXCEPT
                       !.heap = [al.heap EXCEPT ![n].table =
                                   entry_or_insert(@, sym, al.ret)],
                       !.chan = al.chan],
              ret |-> Ok(Reference_from_HeapObject(al.ret))]

(* scope_for_a_new_function: the env one step below the top of ENV_STACK. *)
scope_for_a_new_function(envs) == envs[Len(envs) - 1]

MAKE_NAMESPACE_FORM ==
    Function_new(<< KEY, Sym("name"), Sym("contents"), Sym("parent") >>, TRUE, GlobalEnv)
LAMBDA_FORM ==
    Function_new(<< Sym("arglist"), REST, Sym("body") >>, TRUE, GlobalEnv)
DEFUN_FORM ==
    Function_new(<< Sym("name"), Sym("arglist"), REST, Sym("body") >>, TRUE, GlobalEnv)

(* The function the run calls, (defun f (x) ...) made at top level. *)
USER_FUNCTION == Function_new(<< Sym("x") >>, FALSE, GlobalEnv)

DefSyms == { Sym("x"), Sym("z") }

NoteDef(t, op, n, sym, ret, post) ==
    hist' = [hist EXCEPT ![t] =
                << [op |-> op, n |-> n, sym |-> sym, ret |-> ret, pheap |-> heap,
                    penv |-> ENV_STACK[t], post |-> post] >>]

DefOver == ghost' = [ghost EXCEPT !.ops = @ + 1]

Namespaces(h) == { a \in DOMAIN h : h[a].kind = "Namespace" }

(* (make-namespace :parent nil) and (make-namespace): the namespace has    *)
(* no parent, or the global env for its parent.                            *)
DefMakeNamespace(t, orphan) ==
    /\ ScopeStart(t)
    /\ \E m1 \in { Function_call_enter(MAKE_NAMESPACE_FORM, t, Machine(t),
                      IF orphan THEN << Sym(":parent"), nil >> ELSE << >>) } :
       \E al \in { allocate(m1.heap, m1.chan, CHOOSE x \in alloc_one(m1.heap) : TRUE,
                            Namespace_Heap(<< >>, IF orphan THEN None
                                                  ELSE Some(m1.envs[1])),
                            "Namespace") } :
       \E m2 \in { Function_call_exit(MAKE_NAMESPACE_FORM, t,
                      [m1 EXCEPT !.heap = al.heap, !.chan = al.chan]) } :
           /\ Commit(t, m2)
           /\ NoteDef(t, "make-namespace", al.ret, nil, Ok(al.ret), m2.heap)
    /\ DefOver
    /\ ScopeRest

(* n.make_sym_ref(sym), for a namespace n that has been allocated. *)
DefMakeSymRef(t, n, sym) ==
    /\ n \in Namespaces(heap)
    /\ ScopeStart(t)
    /\ \E r \in { Namespace_make_sym_ref(Machine(t), n, sym) } :
           /\ Commit(t, r.m)
           /\ NoteDef(t, "make_sym_ref", n, sym, r.ret, r.m.heap)
    /\ DefOver
    /\ ScopeRest

(* *(n.make_sym_ref(sym)) = v: the slot is assigned, as defvar does. *)
DefAssign(t, n, sym, v) ==
    /\ n \in Namespaces(heap)
    /\ heap[n].variant = "Heap"
    /\ ScopeStart(t)
    /\ \E r \in { Namespace_make_sym_ref(Machine(t), n, sym) } :
       \E w \in { deref_mut_assign(r.m.stacks, r.m.heap, r.ret.val, v) } :
           /\ Commit(t, [r.m EXCEPT !.heap = w.heap])
           /\ NoteDef(t, "assign", n, sym, r.ret, w.heap)
    /\ DefOver
    /\ ScopeRest

(* Function::call of the user function up to the start of its body. *)
DefCall(t, arg) ==
    /\ ScopeStart(t)
    /\ Len(ENV_STACK[t]) = 1
    /\ \E m1 \in { Function_call_enter(USER_FUNCTION, t, Machine(t), << arg >>) } :
           /\ Commit(t, m1)
           /\ NoteDef(t, "call", Last(m1.envs), nil, Ok(nil), m1.heap)
    /\ DefOver
    /\ ScopeRest

(* Function::call of the user function from the end of its body. *)
DefReturn(t) ==
    /\ tpc[t] = Running
    /\ Turn(t)
    /\ Len(ENV_STACK[t]) > 1
    /\ \E m1 \in { Function_call_exit(USER_FUNCTION, t, Machine(t)) } :
           /\ Commit(t, m1)
           /\ NoteDef(t, "return", current_env(t), nil, Ok(nil), m1.heap)
    /\ UNCHANGED ghost
    /\ ScopeRest

(* (lambda () x), at top level or in the body of the call. *)
DefLambda(t) ==
    /\ ScopeStart(t)
    /\ \E m1 \in { Function_call_enter(LAMBDA_FORM, t, Machine(t),
                                       << nil, Sym("x") >>) } :
       \E al \in { allocate(m1.heap, m1.chan, CHOOSE x \in alloc_one(m1.heap) : TRUE,
                            Function_make_lambda(scope_for_a_new_function(m1.envs)),
                            "Function") } :
       \E m2 \in { Function_call_exit(LAMBDA_FORM, t,
                      [m1 EXCEPT !.heap = al.heap, !.chan = al.chan]) } :
           /\ Commit(t, m2)
           /\ NoteDef(t, "lambda", al.ret, nil, Ok(al.ret), m2.heap)
    /\ DefOver
    /\ ScopeRest

(* (defun g () x), at top level or in the body of the call. *)
DefDefun(t) ==
    /\ ScopeStart(t)
    /\ \E m1 \in { Function_call_enter(DEFUN_FORM, t, Machine(t),
                                       << Sym("g"), nil, Sym("x") >>) } :
       \E al \in { allocate(m1.heap, m1.chan, CHOOSE x \in alloc_one(m1.heap) : TRUE,
                            [Function_make_lambda(scope_for_a_new_function(m1.envs))
                                EXCEPT !.name = Some(Sym("g"))],
                            "Function") } :
       \E r \in { Namespace_make_sym_ref([m1 EXCEPT !.heap = al.heap, !.chan = al.chan],
                                         m1.envs[1], Sym("g")) } :
       \E w \in { deref_mut_assign(r.m.stacks, r.m.heap, r.ret.val,
                                   Pointer("Function", al.ret)) } :
       \E m2 \in { Function_call_exit(DEFUN_FORM, t, [r.m EXCEPT !.heap = w.heap]) } :
           /\ Commit(t, m2)
           /\ NoteDef(t, "defun", al.ret, Sym("g"), Ok(al.ret), m2.heap)
    /\ DefOver
    /\ ScopeRest

DefVals == { UnsignedInt(5) }

InitDef ==
    /\ InitScopeVars
    /\ ghost = [ops |-> 0, started |-> 0]

NextDef ==
    \E t \in Threads :
        \/ \E orphan \in BOOLEAN : DefMakeNamespace(t, orphan)
        \/ \E n \in ScopeAddr, sym \in DefSyms : DefMakeSymRef(t, n, sym)
        \/ \E n \in ScopeAddr, sym \in DefSyms, v \in DefVals : DefAssign(t, n, sym, v)
        \/ \E arg \in DefVals : DefCall(t, arg)
        \/ DefReturn(t)
        \/ DefLambda(t)
        \/ DefDefun(t)

SpecDef == InitDef /\ [][NextDef]_vars

----------------------------------------------------------------------------
(* SpecThreads: two threads evaluate, each in the shared default global    *)
(* env, the forms of the threading test for its own number n: a defvar of  *)
(* v to n, a defun of f whose body multiplies v by n, (setf v (f)) and v,  *)
(* where v and f are symbols no other thread uses.  The threads interleave *)
(* wherever one of them does not hold the lock of the table of the global  *)
(* namespace.                                                              *)

VarNames == << "make-a-thread-0", "make-a-thread-1", "make-a-thread-2", "make-a-thread-3" >>
FnNames  == << "make-a-thread-fn-0", "make-a-thread-fn-1", "make-a-thread-fn-2",
               "make-a-thread-fn-3" >>

VarSym(t) == Sym(VarNames[t + 1])
FnSym(t)  == Sym(FnNames[t + 1])

(* The two threads the test spawns, first_child and second_child. *)
Children == { t \in Threads : t < 2 }

(* The number of thread t: thread_inner(sym). *)
thread_inner(t) == t + 2

DEFVAR_FORM == Function_new(<< Sym("name"), OPTIONAL, Sym("value") >>, TRUE, GlobalEnv)

(* Object::definedp. *)
definedp(obj) == obj # uninitialized

(* The call (f) of the function at address f of the heap, whose body      *)
(* multiplies v by n: Function::call builds the frame and the env, the     *)
(* body looks v up from there and multiplies, and the frame is dropped.    *)
call_thread_fn(t, m, f) ==
    LET self == Function_new(<< >>, FALSE, CHOOSE e \in m.heap[f].env : TRUE)
        m1   == Function_call_enter(self, t, m, << >>)
        v    == Symbol_evaluate(m1.stacks, m1.heap, Last(m1.envs), VarSym(t))
    IN  [m |-> Function_call_exit(self, t, m1),
         ret |-> IF v.ok /\ v.val.tag = "UnsignedInt"
                 THEN Ok(UnsignedInt(v.val.val * thread_inner(t)))
                 ELSE IF v.ok THEN Err(UserError) ELSE v]

ThreadsAddr == 1 .. (MaxAddr + 5 + 8 * Cardinality(Children))

Forms(t) == Len(hist[t])

NoteForm(t, op, ret) ==
    hist' = [hist EXCEPT ![t] = Append(@, [op |-> op, ret |-> ret])]

ThrRest == UNCHANGED <<ALLOCED_OBJECTS, regLock, THE_GC_MARK, GC_THRESHOLD, gcpc,
                       gcLocal, parkToken, allocCt, SYMBOLS_HEAP, symLock>>

At(t, pc) == tpc[t].pc = pc

(* Another thread is inside a form. *)
Overlaps(t) == \E u \in Children \ {t} : tpc[u] # Running

(* defvar up to make_from_global_namespace(sym), which inserts under the   *)
(* write lock of the table.                                                *)
ThrDefvarMake(t) ==
    /\ tpc[t] = Running
    /\ Forms(t) = 0
    /\ \E m1 \in { Function_call_enter(DEFVAR_FORM, t, Machine(t),
                      << VarSym(t), UnsignedInt(thread_inner(t)) >>) } :
       \E r \in { Namespace_make_sym_ref(m1, m1.envs[1], VarSym(t)) } :
           /\ Commit(t, r.m)
           /\ held' = [held EXCEPT ![t] = Some(r.ret.val.val)]
    /\ tpc' = [tpc EXCEPT ![t] = [pc |-> "defvar", s |-> None]]
    /\ ghost' = [ghost EXCEPT !.overlap = @ \/ Overlaps(t)]
    /\ UNCHANGED hist
    /\ ThrRest

(* defvar from place.definedp(): the value is evaluated inside             *)
(* in_parent_env and assigned to the place, unless the place is defined.   *)
ThrDefvarStore(t) ==
    /\ At(t, "defvar")
    /\ \E slot \in held[t] :
       \E m1 \in { in_parent_env_exit(t, in_parent_env_enter(t, Machine(t))) } :
       \E h2 \in { IF definedp(heap[slot].val) THEN m1.heap
                   ELSE [m1.heap EXCEPT ![slot].val = UnsignedInt(thread_inner(t))] } :
           /\ Commit(t, Function_call_exit(DEFVAR_FORM, t,
                            IF definedp(heap[slot].val) THEN Machine(t)
                            ELSE [m1 EXCEPT !.heap = h2]))
           /\ NoteForm(t, "defvar", Ok(h2[slot].val))
    /\ held' = [held EXCEPT ![t] = None]
    /\ tpc' = [tpc EXCEPT ![t] = Running]
    /\ UNCHANGED ghost
    /\ ThrRest

(* defun up to Function::allocate. *)
ThrDefunAllocate(t) ==
    /\ tpc[t] = Running
    /\ Forms(t) = 1
    /\ \E m1 \in { Function_call_enter(DEFUN_FORM, t, Machine(t),
                      << FnSym(t), nil, VarSym(t) >>) } :
       \E al \in { allocate(m1.heap, m1.chan, CHOOSE x \in alloc_one(m1.heap) : TRUE,
                            [Function_make_lambda(scope_for_a_new_function(m1.envs))
                                EXCEPT !.name = Some(FnSym(t))],
                            "Function") } :
           /\ Commit(t, [m1 EXCEPT !.heap = al.heap, !.chan = al.chan])
           /\ tpc' = [tpc EXCEPT ![t] = [pc |-> "defun", s |-> Some(al.ret)]]
    /\ ghost' = [ghost EXCEPT !.overlap = @ \/ Overlaps(t)]
    /\ UNCHANGED <<hist, held>>
    /\ ThrRest

(* defun: make_from_global_namespace(name). *)
ThrDefunMake(t) ==
    /\ At(t, "defun")
    /\ held[t] = None
    /\ \E r \in { Namespace_make_sym_ref(Machine(t), global_env(t), FnSym(t)) } :
           /\ Commit(t, r.m)
           /\ held' = [held EXCEPT ![t] = Some(r.ret.val.val)]
    /\ ghost' = [ghost EXCEPT !.overlap = @ \/ Overlaps(t)]
    /\ UNCHANGED <<hist, tpc>>
    /\ ThrRest

(* defun: the assignment of the function to the place, and the return. *)
ThrDefunStore(t) ==
    /\ At(t, "defun")
    /\ \E slot \in held[t], func \in tpc[t].s :
           /\ Commit(t, Function_call_exit(DEFUN_FORM, t,
                            [Machine(t) EXCEPT
                               !.heap[slot].val = Pointer("Function", func)]))
           /\ NoteForm(t, "defun", Ok(Pointer("Function", func)))
    /\ held' = [held EXCEPT ![t] = None]
    /\ tpc' = [tpc EXCEPT ![t] = Running]
    /\ UNCHANGED ghost
    /\ ThrRest

(* setf up to eval_to_reference(place), which reads the tables under their *)
(* read locks.  An unbound place ends the form.                            *)
ThrSetfResolve(t) ==
    /\ tpc[t] = Running
    /\ Forms(t) = 2
    /\ \E m1 \in { Function_call_enter(SETF_FORM, t, Machine(t),
                      << VarSym(t), Object_from_List(<< FnSym(t) >>) >>) } :
       \E p \in { Symbol_eval_to_reference(m1.heap, Last(m1.envs), VarSym(t)) } :
           IF p.ok /\ p.val.tag = "HeapReference"
           THEN /\ Commit(t, m1)
                /\ held' = [held EXCEPT ![t] = Some(p.val.val)]
                /\ tpc' = [tpc EXCEPT ![t] = [pc |-> "setf", s |-> None]]
                /\ UNCHANGED hist
           ELSE /\ Commit(t, Function_call_exit(SETF_FORM, t, m1))
                /\ NoteForm(t, "setf", Err(UnboundSymbolError(VarSym(t))))
                /\ UNCHANGED <<held, tpc>>
    /\ ghost' = [ghost EXCEPT !.overlap = @ \/ Overlaps(t)]
    /\ ThrRest

(* setf from the evaluation of the value, the call (f), inside             *)
(* in_parent_env, to the assignment and the return.                        *)
ThrSetfStore(t) ==
    /\ At(t, "setf")
    /\ \E slot \in held[t] :
       \E m1 \in { in_parent_env_enter(t, Machine(t)) } :
       \E f \in { Symbol_evaluate(m1.stacks, m1.heap, Last(m1.envs), FnSym(t)) } :
       \E c \in { IF f.ok /\ f.val.tag = "Function"
                  THEN call_thread_fn(t, m1, f.val.val)
                  ELSE [m |-> m1, ret |-> IF f.ok THEN Err(UserError) ELSE f] } :
       \E m2 \in { in_parent_env_exit(t, c.m) } :
           /\ Commit(t, Function_call_exit(SETF_FORM, t,
                            IF c.ret.ok THEN [m2 EXCEPT !.heap[slot].val = c.ret.val]
                            ELSE m2))
           /\ NoteForm(t, "setf", c.ret)
    /\ held' = [held EXCEPT ![t] = None]
    /\ tpc' = [tpc EXCEPT ![t] = Running]
    /\ UNCHANGED ghost
    /\ ThrRest

(* The form v, evaluated at top level. *)
ThrRead(t) ==
    /\ tpc[t] = Running
    /\ Forms(t) = 3
    /\ NoteForm(t, "read", Symbol_evaluate(STACKS, heap, current_env(t), VarSym(t)))
    /\ ghost' = [ghost EXCEPT !.overlap = @ \/ Overlaps(t)]
    /\ UNCHANGED <<STACKS, heap, JUST_ALLOCATED, ENV_REF_COUNTS, ENV_STACK, tpc, held>>
    /\ ThrRest

InitThreads ==
    /\ STACKS = [t \in Threads |-> Filled(0)]
    /\ hist = [t \in Threads |-> <<>>]
    /\ heap = [a \in ThreadsAddr |->
                 CASE a = GlobalEnv -> Namespace_Heap((Sym("x") :> SlotX) @@
                                                      (Sym("y") :> SlotY), None)
                   [] a = SymF      -> Symbol_new("f")
                   [] a = SlotF     -> HeapObject_around(uninitialized)
                   [] a = SlotX     -> HeapObject_around(UnsignedInt(0))
                   [] a = SlotY     -> HeapObject_around(UnsignedInt(7))
                   [] OTHER         -> Free]
    /\ ALLOCED_OBJECTS = << Pointer("Symbol", SymF), Pointer("Namespace", GlobalEnv),
                            Pointer("HeapObject", SlotF), Pointer("HeapObject", SlotX),
                            Pointer("HeapObject", SlotY) >>
    /\ JUST_ALLOCATED = <<>>
    /\ regLock = NoOwner
    /\ THE_GC_MARK = 0
    /\ GC_THRESHOLD = INITIAL_GC_THRESHOLD
    /\ gcpc = [c \in GcCallers |-> IF c = Collector THEN "unspawned" ELSE "idle"]
    /\ gcLocal = [c \in GcCallers |-> NoPass]
    /\ parkToken = FALSE
    /\ allocCt = None
    /\ SYMBOLS_HEAP = [x \in {"f"} |-> SymF]
    /\ symLock = None
    /\ ENV_REF_COUNTS = [x \in {GlobalEnv} |-> NThreads]
    /\ ENV_STACK = [t \in Threads |-> << GlobalEnv >>]
    /\ InitThr
    /\ ghost = [ops |-> 0, started |-> 0, overlap |-> FALSE]

NextThreads ==
    \E t \in Children :
        \/ ThrDefvarMake(t)
        \/ ThrDefvarStore(t)
        \/ ThrDefunAllocate(t)
        \/ ThrDefunMake(t)
        \/ ThrDefunStore(t)
        \/ ThrSetfResolve(t)
        \/ ThrSetfStore(t)
        \/ ThrRead(t)

SpecThreads == InitThreads /\ [][NextThreads]_vars

----------------------------------------------------------------------------
(* SpecPass: the allocator thread, the collector thread and a thread that  *)
(* calls gc_pass itself, next to one thread that allocates objects and     *)
(* drops them.  The run records which calls of gc_pass came during a pass  *)
(* of another caller, and the threshold and epoch at each registration.    *)

InitPass ==
    /\ STACKS = UsedStacks
    /\ hist = [t \in Threads |-> <<>>]
    /\ InitGc /\ InitEnv /\ InitThr
    /\ ghost = InitGhost @@ [busyCall |-> {},
                             reg |-> [threshold |-> INITIAL_GC_THRESHOLD, epoch |-> 0,
                                      unparked |-> "no"]]

NextPass ==
    \/ \E t \in {0} : Allocate(t) \/ Forget(t)
    \/ AllocRegister
    \/ AllocUnpark
    \/ \E c \in GcCallers : GcStep(c)

SpecPass == InitPass /\ [][NextPass]_vars

(* The allocator thread and every thread that is inside gc_pass or at its  *)
(* park are scheduled fairly: each takes its next step if it can.  No      *)
(* thread is bound to call gc_pass.                                        *)
SpecPassLive ==
    /\ SpecPass
    /\ WF_vars(AllocUnpark)
    /\ \A c \in GcCallers :
          WF_vars(GcAcquire(c) \/ GcMarkStack(c) \/ GcMarkScope(c) \/ GcSweep(c)
                  \/ GcFinish(c) \/ GcPark(c))

(* SpecAllocLive: the same run, with the allocator thread's receive loop    *)
(* scheduled fairly as well: it registers the next message once the        *)
(* registry lock is free, and every pass that began runs to its end.       *)
SpecAllocLive ==
    /\ SpecPassLive
    /\ WF_vars(AllocRegister)

----------------------------------------------------------------------------
(* SpecMark: the marking of one root during a pass, call by call.  The     *)
(* run starts inside a pass of the collector thread with mark 1, on a heap *)
(* of two environments, a symbol, a slot and a pair cell whose fields are  *)
(* drawn from small sets, cycles included; some objects carry the mark of  *)
(* the pass already.  ghost.work is the stack of pending gc_mark calls,    *)
(* the next one first.                                                     *)

Cons_new(car, cdr) == [kind |-> "Cons", gc_marking |-> 0, car |-> car, cdr |-> cdr]

RECURSIVE SetToSeq(_)
SetToSeq(S) ==
    IF S = {} THEN << >>
    ELSE LET x == CHOOSE y \in S : TRUE IN << x >> \o SetToSeq(S \ {x})

(* Object::gc_mark: the heap object the call goes to, if any; a pair cell  *)
(* is a heap object too.                                                   *)
Object_gc_mark(o) ==
    IF o.tag = "Cons" THEN << o.val >> ELSE SetToSeq(Target(o))

RECURSIVE Namespace_gc_mark_children_calls(_, _)
Namespace_gc_mark_children_calls(o, syms) ==
    IF syms = << >> THEN << >>
    ELSE << Head(syms), o.table[Head(syms)] >> \o SetToSeq(o.parent)
         \o Namespace_gc_mark_children_calls(o, Tail(syms))

(* gc_mark_children of each heap type: the gc_mark calls it makes, in      *)
(* their order.                                                            *)
gc_mark_children_calls(o) ==
    CASE o.kind = "HeapObject" -> Object_gc_mark(o.val)
      [] o.kind = "Cons"       -> Object_gc_mark(o.car) \o Object_gc_mark(o.cdr)
      [] o.kind = "Namespace"  ->
            Namespace_gc_mark_children_calls(o, SetToSeq(DOMAIN o.table))
      [] o.kind = "Function"   ->
            SetToSeq(o.name) \o Object_gc_mark(o.arglist) \o Object_gc_mark(o.body)
      [] OTHER                 -> << >>

(* A gc_mark that visits the children whatever the old mark was. *)
gc_mark_call_ungated(h, a, m) ==
    [heap |-> [h EXCEPT ![a].gc_marking = m], visited |-> TRUE,
     calls |-> gc_mark_children_calls(h[a])]

(* GarbageCollected::gc_mark on the object at a: the mark is swapped in,   *)
(* and gc_mark_children runs if the old mark differed.                     *)
gc_mark_call(h, a, m) ==
    LET old_m == h[a].gc_marking
        h1    == [h EXCEPT ![a].gc_marking = m]
    IN  IF old_m # m
        THEN [heap |-> h1, visited |-> TRUE, calls |-> gc_mark_children_calls(h1[a])]
        ELSE [heap |-> h1, visited |-> FALSE, calls |-> << >>]

MarkAddr == 1 .. 5

MarkTables  == { << >>, [x \in {3} |-> 4] }
MarkParents == { None, Some(1), Some(2) }
MarkVals    == { UnsignedInt(0), Pointer("Namespace", 1), Pointer("Cons", 5) }
MarkCars    == { nil, Pointer("HeapObject", 4) }
MarkCdrs    == { nil, Pointer("Cons", 5), Pointer("HeapObject", 4) }
MarkRoots   == { 1, 4, 5 }

MarkHeap(t1, p1, t2, p2, v, car, cdr, pre) ==
    LET h == [a \in MarkAddr |->
                CASE a = 1 -> Namespace_Heap(t1, p1)
                  [] a = 2 -> Namespace_Heap(t2, p2)
                  [] a = 3 -> Symbol_new("x")
                  [] a = 4 -> HeapObject_around(v)
                  [] OTHER -> Cons_new(car, cdr)]
    IN  [a \in MarkAddr |->
            IF a \in pre THEN [h[a] EXCEPT !.gc_marking = 1] ELSE h[a]]

(* gc_mark is called on a root. *)
MarkRoot(r) ==
    /\ ghost.root = None
    /\ ghost' = [ghost EXCEPT !.root = Some(r), !.work = << r >>]
    /\ UNCHANGED <<stackVars, gcVars, envVars, thrVars>>

(* The next pending gc_mark call runs up to its first nested call. *)
MarkCall ==
    /\ ghost.work # << >>
    /\ \E r \in { gc_mark_call(heap, Head(ghost.work), gcLocal[Collector].mark) } :
          /\ heap' = r.heap
          /\ ghost' = [ghost EXCEPT
                          !.work = r.calls \o Tail(@),
                          !.calls = @ + 1,
                          !.last = [at |-> Head(ghost.work), visited |-> r.visited],
                          !.visits[Head(ghost.work)] = IF r.visited THEN @ + 1 ELSE @]
    /\ UNCHANGED <<stackVars, ALLOCED_OBJECTS, JUST_ALLOCATED, regLock, THE_GC_MARK,
                   GC_THRESHOLD, gcpc, gcLocal, parkToken, allocCt, envVars, thrVars>>

InitMark ==
    /\ STACKS = UsedStacks
    /\ hist = [t \in Threads |-> <<>>]
    /\ \E t1, t2 \in MarkTables, p1, p2 \in MarkParents, v \in MarkVals,
          car \in MarkCars, cdr \in MarkCdrs, pre \in SUBSET {2, 5} :
          heap = MarkHeap(t1, p1, t2, p2, v, car, cdr, pre)
    /\ ALLOCED_OBJECTS = << Pointer("Namespace", 1), Pointer("Namespace", 2),
                            Pointer("Symbol", 3), Pointer("HeapObject", 4),
                            Pointer("Cons", 5) >>
    /\ JUST_ALLOCATED = <<>>
    /\ regLock = Collector
    /\ THE_GC_MARK = 2
    /\ GC_THRESHOLD = INITIAL_GC_THRESHOLD
    /\ gcpc = [c \in GcCallers |-> IF c = Collector THEN "mark_scope" ELSE "idle"]
    /\ gcLocal = [c \in GcCallers |->
                    IF c = Collector THEN [mark |-> 1, todo |-> {}] ELSE NoPass]
    /\ parkToken = FALSE
    /\ allocCt = None
    /\ InitEnv /\ InitThr
    /\ ghost = [ops |-> 0, started |-> 0, root |-> None, work |-> << >>, calls |-> 0,
                last |-> [at |-> 0, visited |-> FALSE],
                heap0 |-> heap, visits |-> [a \in MarkAddr |-> 0]]

NextMark ==
    \/ \E r \in MarkRoots : MarkRoot(r)
    \/ MarkCall

SpecMark == InitMark /\ [][NextMark]_vars

(* gc_mark runs on the collector's thread and is scheduled like any        *)
(* running code: a pending call is eventually made.                        *)
SpecMarkLive == SpecMark /\ WF_vars(MarkCall)

----------------------------------------------------------------------------
(* SpecLocks: the lock traffic of the runtime.  Evaluating threads, the    *)
(* allocator thread and the collector thread each run the sequence of      *)
(* lock() / read() / write() calls and guard drops that their code makes;  *)
(* held[p] is the set of guards thread p holds and tpc[p] the code it has  *)
(* left to run.  The data behind the locks is kept only where it decides   *)
(* which lock is asked for next: the keys of STACKS, the channel and the   *)
(* registry.  The default global env binds a namespace made by             *)
(* (make-namespace :name ns :parent t), whose parent is the global env.    *)

LockThreads == 0 .. NThreads
AllocProc   == NThreads + 1
GcProc      == NThreads + 2
LockProcs   == LockThreads \cup { AllocProc, GcProc }

LockEnvs == { "default_global_env", "ns" }
(* make-namespace with :parent t gives the namespace the global env as its *)
(* parent and with :name stores it in a slot of the global env.            *)
LockParent(e) == IF e = "ns" THEN { "default_global_env" } ELSE {}
LockValues(e) == IF e = "default_global_env" THEN { "ns" } ELSE {}

Guard(lock, of, mode) == [lock |-> lock, of |-> of, mode |-> mode]
RegistryGuard   == Guard("ALLOCED_OBJECTS", 0, "mutex")
StacksGuard(m)  == Guard("STACKS", 0, m)
StackGuard(k)   == Guard("stack", k, "mutex")
SymbolsGuard    == Guard("SYMBOLS_HEAP", 0, "mutex")
RefCountsGuard  == Guard("ENV_REF_COUNTS", 0, "mutex")
TableGuard(e, m) == Guard("table", e, m)

acquire(g)          == [do |-> "acquire", g |-> g, alloc |-> FALSE]
acquire_allocate(g) == [do |-> "acquire", g |-> g, alloc |-> TRUE]
drop(g)             == [do |-> "drop", g |-> g, alloc |-> FALSE]

(* with_stack: the read guard of STACKS and the guard of the thread's own  *)
(* stack are held while the closure runs; a thread whose key is missing    *)
(* has dropped the read guard before it asks for the write guard.          *)
with_stack_locks(k, registered) ==
    LET found == << acquire(StacksGuard("read")), acquire(StackGuard(k)),
                    drop(StackGuard(k)), drop(StacksGuard("read")) >>
    IN  IF registered THEN found
        ELSE << acquire(StacksGuard("read")), drop(StacksGuard("read")),
                acquire(StacksGuard("write")), drop(StacksGuard("write")) >> \o found

(* make_symbol: the symbol table stays locked while a new symbol is        *)
(* allocated and inserted.                                                 *)
make_symbol_locks(new) ==
    << IF new THEN acquire_allocate(SymbolsGuard) ELSE acquire(SymbolsGuard),
       drop(SymbolsGuard) >>

(* add_ref_to and remove_ref_to lock the table of counts and nothing else. *)
ref_count_locks == << acquire(RefCountsGuard), drop(RefCountsGuard) >>

(* get_sym_ref: the read guard of a table is a temporary of the            *)
(* expression that goes on to search the parent, so it is held while the   *)
(* parent's table is read.                                                 *)
RECURSIVE get_sym_ref_locks(_, _)
get_sym_ref_locks(e, depth) ==
    IF depth = 0 \/ LockParent(e) = {}
    THEN << acquire(TableGuard(e, "read")), drop(TableGuard(e, "read")) >>
    ELSE << acquire(TableGuard(e, "read")) >>
         \o get_sym_ref_locks(CHOOSE p \in LockParent(e) : TRUE, depth - 1)
         \o << drop(TableGuard(e, "read")) >>

(* make_sym_ref: the write guard is held while or_insert_with allocates    *)
(* the slot.                                                               *)
make_sym_ref_locks(e) ==
    << acquire_allocate(TableGuard(e, "write")), drop(TableGuard(e, "write")) >>

(* What the evaluating threads run.  The main thread pushes on its stack   *)
(* and looks symbols up from the namespace, as Symbol::evaluate does       *)
(* inside (with-namespace ns ...); the second thread interns symbols and   *)
(* defines variables in the namespace; the others enter and leave envs and *)
(* define variables in the default global env.                             *)
LockOps(t) ==
    CASE t = 0 -> { with_stack_locks(t, t \in DOMAIN STACKS) }
                  \cup { get_sym_ref_locks("ns", d) : d \in 0 .. 1 }
      [] t = 1 -> { make_symbol_locks(new) : new \in BOOLEAN }
                  \cup { make_sym_ref_locks("ns") }
      [] OTHER -> { ref_count_locks, make_sym_ref_locks("default_global_env") }

(* Namespace::gc_mark_children: the read guard of the table is held while  *)
(* the values and the parent are marked; gc_mark enters a namespace once   *)
(* per pass.                                                               *)
RECURSIVE gc_mark_children_locks(_, _)
gc_mark_children_locks(e, marked) ==
    LET next == (LockValues(e) \cup LockParent(e)) \ (marked \cup {e})
    IN  << acquire(TableGuard(e, "read")) >>
        \o (IF next = {} THEN << >>
            ELSE gc_mark_children_locks(CHOOSE c \in next : TRUE, marked \cup {e}))
        \o << drop(TableGuard(e, "read")) >>

(* gc_mark_stack, once it holds the read guard of STACKS: each stack in    *)
(* turn is locked while its objects are marked.                            *)
RECURSIVE gc_mark_stack_locks(_)
gc_mark_stack_locks(keys) ==
    IF keys = {} THEN << >>
    ELSE LET k == CHOOSE x \in keys : \A y \in keys : x <= y
         IN  << acquire(StackGuard(k)), drop(StackGuard(k)) >>
             \o gc_mark_stack_locks(keys \ {k})

gc_mark_scope_locks ==
    << acquire(RefCountsGuard) >>
    \o gc_mark_children_locks("default_global_env", {})
    \o << drop(RefCountsGuard) >>

mark_scope_locks ==
    << acquire(SymbolsGuard), drop(SymbolsGuard) >> \o gc_mark_scope_locks

gc_pass_locks ==
    << acquire(RegistryGuard), acquire(StacksGuard("read")), drop(StacksGuard("read")) >>
    \o mark_scope_locks
    \o << drop(RegistryGuard) >>

allocator_locks == << acquire(RegistryGuard), drop(RegistryGuard) >>

(* The state of a lock, read off the guards held and asked for. *)
Holders(lock, of) ==
    { p \in LockProcs : \E g \in held[p] : g.lock = lock /\ g.of = of }
Writers(lock, of) ==
    { p \in LockProcs : \E g \in held[p] : g.lock = lock /\ g.of = of /\ g.mode # "read" }
Wants(p) ==
    IF tpc[p].waiting THEN { Head(tpc[p].code).g } ELSE {}
WaitingWriters(lock, of) ==
    { p \in LockProcs : \E g \in Wants(p) : g.lock = lock /\ g.of = of /\ g.mode = "write" }

(* std::sync::RwLock promises no priority policy: on some builds a reader  *)
(* is let in while a writer waits, on others it queues behind the writer.  *)
RwLockPolicies == { "readers_pass", "writers_first" }

(* The threads that stand between p and the guard g. *)
Blockers(p, g) ==
    IF g.mode = "read"
    THEN Writers(g.lock, g.of)
         \cup (IF ghost.policy = "writers_first"
               THEN WaitingWriters(g.lock, g.of) ELSE {})
    ELSE Holders(g.lock, g.of)

CanAcquire(p, g) == Blockers(p, g) \ {p} = {}

LockIdle(p) == [code |-> << >>, waiting |-> FALSE]

LockRest ==
    UNCHANGED <<hist, heap, regLock, GC_THRESHOLD, gcpc, gcLocal, parkToken, allocCt,
                SYMBOLS_HEAP, symLock, ENV_REF_COUNTS, ENV_STACK>>

(* An evaluating thread begins an operation. *)
LockOp(t, code) ==
    /\ tpc[t].code = << >>
    /\ ghost.ops < MaxOps
    /\ tpc' = [tpc EXCEPT ![t] = [code |-> code, waiting |-> FALSE]]
    /\ ghost' = [ghost EXCEPT !.ops = @ + 1]
    /\ UNCHANGED <<STACKS, ALLOCED_OBJECTS, JUST_ALLOCATED, THE_GC_MARK, held>>
    /\ LockRest

(* The allocator thread takes up the next message of the channel. *)
AllocatorRecv ==
    /\ tpc[AllocProc].code = << >>
    /\ JUST_ALLOCATED # << >>
    /\ tpc' = [tpc EXCEPT ![AllocProc] = [code |-> allocator_locks, waiting |-> FALSE]]
    /\ UNCHANGED <<STACKS, ALLOCED_OBJECTS, JUST_ALLOCATED, THE_GC_MARK, held, ghost>>
    /\ LockRest

(* The collector thread is unparked and calls gc_pass. *)
GcPassStart ==
    /\ tpc[GcProc].code = << >>
    /\ THE_GC_MARK < MaxEpoch
    /\ tpc' = [tpc EXCEPT ![GcProc] = [code |-> gc_pass_locks, waiting |-> FALSE]]
    /\ UNCHANGED <<STACKS, ALLOCED_OBJECTS, JUST_ALLOCATED, THE_GC_MARK, held, ghost>>
    /\ LockRest

(* A call of lock(), read() or write() that finds the lock taken blocks.   *)
LockWait(p) ==
    /\ tpc[p].code # << >>
    /\ Head(tpc[p].code).do = "acquire"
    /\ ~tpc[p].waiting
    /\ ~CanAcquire(p, Head(tpc[p].code).g)
    /\ tpc' = [tpc EXCEPT ![p].waiting = TRUE]
    /\ UNCHANGED <<STACKS, ALLOCED_OBJECTS, JUST_ALLOCATED, THE_GC_MARK, held, ghost>>
    /\ LockRest

(* The call returns the guard; what the thread does under it before its    *)
(* next call is part of the step: the collector takes the epoch and reads  *)
(* the keys of STACKS, the allocator pushes the message on the registry,   *)
(* a thread inserts its stack, an allocation sends on the channel.         *)
LockAcquire(p) ==
    /\ tpc[p].code # << >>
    /\ Head(tpc[p].code).do = "acquire"
    /\ CanAcquire(p, Head(tpc[p].code).g)
    /\ \E step \in { Head(tpc[p].code) } :
         /\ held' = [held EXCEPT ![p] = @ \cup { step.g }]
         /\ tpc' = [tpc EXCEPT ![p] =
                      [code |-> (IF p = GcProc /\ step.g = StacksGuard("read")
                                 THEN gc_mark_stack_locks(DOMAIN STACKS) ELSE << >>)
                                \o Tail(tpc[p].code),
                       waiting |-> FALSE]]
         /\ STACKS' = IF step.g = StacksGuard("write")
                      THEN (p :> Filled(0)) @@ STACKS ELSE STACKS
         /\ THE_GC_MARK' = IF p = GcProc /\ step.g = RegistryGuard
                           THEN THE_GC_MARK + 1 ELSE THE_GC_MARK
         /\ IF p = AllocProc /\ step.g = RegistryGuard
            THEN /\ ALLOCED_OBJECTS' = Append(ALLOCED_OBJECTS, recv(JUST_ALLOCATED).msg)
                 /\ JUST_ALLOCATED' = recv(JUST_ALLOCATED).rest
            ELSE /\ ALLOCED_OBJECTS' = ALLOCED_OBJECTS
                 /\ JUST_ALLOCATED' = IF step.alloc
                                      THEN Append(JUST_ALLOCATED, Pointer("HeapObject", 0))
                                      ELSE JUST_ALLOCATED
    /\ UNCHANGED ghost
    /\ LockRest

(* A guard goes out of scope. *)
LockDrop(p) ==
    /\ tpc[p].code # << >>
    /\ Head(tpc[p].code).do = "drop"
    /\ held' = [held EXCEPT ![p] = @ \ { Head(tpc[p].code).g }]
    /\ tpc' = [tpc EXCEPT ![p].code = Tail(@)]
    /\ UNCHANGED <<STACKS, ALLOCED_OBJECTS, JUST_ALLOCATED, THE_GC_MARK, ghost>>
    /\ LockRest

LockStep(p) == LockWait(p) \/ LockAcquire(p) \/ LockDrop(p)

InitLocks ==
    /\ STACKS = << >>
    /\ hist = << >>
    /\ InitGc /\ InitEnv
    /\ tpc = [p \in LockProcs |-> LockIdle(p)]
    /\ held = [p \in LockProcs |-> {}]
    /\ \E policy \in RwLockPolicies : ghost = [ops |-> 0, policy |-> policy]

NextLocks ==
    \/ \E t \in LockThreads : \E code \in LockOps(t) : LockOp(t, code)
    \/ AllocatorRecv
    \/ GcPassStart
    \/ \E p \in LockProcs : LockWait(p)
    \/ \E p \in LockProcs : LockAcquire(p)
    \/ \E p \in LockProcs : LockDrop(p)

SpecLocks == InitLocks /\ [][NextLocks]_vars

(* Every thread that has code left to run is scheduled fairly: it makes    *)
(* its next call, is handed the lock it waits for or drops its guard, if   *)
(* it can.                                                                 *)
SpecLocksLive ==
    /\ SpecLocks
    /\ \A p \in LockProcs : WF_vars(LockStep(p))
    /\ WF_vars(AllocatorRecv)

----------------------------------------------------------------------------
(* Claims about the evaluation stack, checked under SpecStack. *)

LastOp(t) == Last(hist[t])
DidOp(t, op) == Len(hist[t]) > 0 /\ LastOp(t).op = op
DidOps(t, op1, op2) ==
    Len(hist[t]) = 2 /\ hist[t][1].op = op1 /\ hist[t][2].op = op2

(* C8: every stack's depth stays within 0 .. STACK_CAPACITY and its        *)
(* capacity stays STACK_CAPACITY; push on a full stack returns             *)
(* StackOverflowError, pop on an empty stack returns StackUnderflowError,  *)
(* and a failed push or pop leaves the stack as it was.                    *)
C8_DepthWithinCapacity ==
    /\ \A k \in DOMAIN STACKS :
          /\ Len(STACKS[k].buf) \in 0 .. STACK_CAPACITY
          /\ STACKS[k].cap = STACK_CAPACITY
    /\ \A t \in Threads :
          /\ DidOp(t, "push") =>
                /\ (Len(LastOp(t).pre.buf) = STACK_CAPACITY) <=> ~LastOp(t).ret.ok
                /\ ~LastOp(t).ret.ok =>
                      /\ LastOp(t).ret.val.error = "StackOverflowError"
                      /\ STACKS[t] = LastOp(t).pre
          /\ DidOp(t, "pop") =>
                /\ (Len(LastOp(t).pre.buf) = 0) <=> ~LastOp(t).ret.ok
                /\ ~LastOp(t).ret.ok =>
                      /\ LastOp(t).ret.val.error = "StackUnderflowError"
                      /\ STACKS[t] = LastOp(t).pre

C8_Witness ==
    \E t \in Threads :
        /\ DidOp(t, "push")
        /\ ~LastOp(t).ret.ok
        /\ Len(STACKS[t].buf) = STACK_CAPACITY

(* C9: make_stack_frame of an argument list that fits, followed at once by *)
(* close_stack_frame_and_return(v), leaves the stack as it was before the  *)
(* frame with v pushed on top.                                             *)
C9_FrameRoundTrip ==
    \A t \in Threads :
        ( /\ DidOps(t, "make_stack_frame", "close_stack_frame_and_return")
          /\ Len(hist[t][1].pre.buf) + Len(hist[t][1].arg) + 1 <= STACK_CAPACITY )
        => /\ hist[t][1].ret.ok
           /\ STACKS[t].buf = Append(hist[t][1].pre.buf, hist[t][2].arg)
           /\ Len(STACKS[t].buf) = Len(hist[t][1].pre.buf) + 1

C9_Witness ==
    \E t \in Threads :
        /\ DidOps(t, "make_stack_frame", "close_stack_frame_and_return")
        /\ hist[t][1].ret.ok
        /\ Len(hist[t][1].arg) = MaxFrame
        /\ Len(hist[t][1].pre.buf) > 0

(* C10: with a frame of k arguments on top, nth_arg(n) returns a reference *)
(* to the slot of the n-th argument when n < k and ArgIndexError{n, k}     *)
(* when n >= k; the reference never points at the count marker or below    *)
(* the frame, and the stack is unchanged.                                  *)
C10_NthArg ==
    \A t \in Threads :
        DidOp(t, "nth_arg") =>
            LET h   == LastOp(t)
                len == Len(h.pre.buf)
                k   == usize_from_unchecked(Last(h.pre.buf))
                n   == h.arg
            IN  /\ STACKS[t] = h.pre
                /\ n >= k => h.ret = Err(ArgIndexError(n, k))
                /\ n < k =>
                      /\ h.ret.ok
                      /\ h.ret.val.tag = "Reference"
                      /\ h.ret.val.val[1] = t
                      /\ h.ret.val.val[2] = (len - 1 - k) + n
                      /\ h.ret.val.val[2] >= len - 1 - k
                      /\ h.ret.val.val[2] < len - 1
                /\ ( /\ DidOps(t, "make_stack_frame", "nth_arg")
                     /\ hist[t][1].ret.ok
                     /\ n < Len(hist[t][1].arg) )
                   => deref_slot(STACKS, h.ret.val) = hist[t][1].arg[n + 1]

C10_Witness ==
    \E t \in Threads :
        /\ DidOps(t, "make_stack_frame", "nth_arg")
        /\ hist[t][1].ret.ok
        /\ Len(hist[t][1].arg) = MaxFrame
        /\ LastOp(t).arg = MaxFrame - 1
        /\ LastOp(t).ret.ok


----------------------------------------------------------------------------
(* Claims about function application, checked under SpecCall. *)

(* C11: when Function::call has returned, on any exit path (normal, an     *)
(* error in an argument, an error in build_env, an error in the body),     *)
(* the calling thread's evaluation-stack depth and its environment stack   *)
(* are what they were before the call.                                     *)
C11_CallRestoresStacks ==
    \A t \in Threads :
        DidOp(t, "call") =>
            /\ Len(STACKS[t].buf) = Len(LastOp(t).pre.buf)
            /\ ENV_STACK[t] = LastOp(t).penv

(* The mandatory parameters of an arglist: the symbols before its first    *)
(* marker.                                                                 *)
IsMarker(s) == s \in {OPTIONAL, REST, KEY}
MandatoryCount(arglist) ==
    Cardinality({ i \in DOMAIN arglist : \A j \in 1 .. i : ~IsMarker(arglist[j]) })

(* The arguments were evaluated and the stack has room for all of them.    *)
ArgsArrive(h) ==
    /\ h.evaled.ok
    /\ Len(h.pre.buf) + Len(h.arg) <= STACK_CAPACITY

(* C12: a call with fewer arguments than the arglist has mandatory         *)
(* parameters returns BadArgCount carrying the declared arglist and the    *)
(* number of arguments supplied, and leaves the stack as it was before     *)
(* the call: no parameter slot of the call remains.                        *)
C12_TooFewArgs ==
    \A t \in Threads :
        ( /\ DidOp(t, "call")
          /\ ArgsArrive(LastOp(t))
          /\ Len(LastOp(t).arg) < MandatoryCount(LastOp(t).self.arglist) )
        => /\ LastOp(t).ret = Err(BadArgCount(LastOp(t).self.arglist, Len(LastOp(t).arg)))
           /\ STACKS[t] = LastOp(t).pre

(* C12 witness: (a b) called with one argument: found = 1. *)
C12_Witness ==
    \E t \in Threads :
        /\ DidOp(t, "call")
        /\ LastOp(t).self.arglist = << Sym("a"), Sym("b") >>
        /\ Len(LastOp(t).arg) = 1
        /\ LastOp(t).ret = Err(BadArgCount(<< Sym("a"), Sym("b") >>, 1))
        /\ STACKS[t] = LastOp(t).pre

(* C13: a call of a function whose arglist has only mandatory parameters,  *)
(* with more arguments than parameters, returns BadArgCount carrying the   *)
(* declared arglist and the number of arguments found, and the body is     *)
(* not evaluated.                                                          *)
C13_TooManyArgs ==
    \A t \in Threads :
        ( /\ Len(hist[t]) > 0
          /\ ArgsArrive(LastOp(t))
          /\ MandatoryCount(LastOp(t).self.arglist) = Len(LastOp(t).self.arglist)
          /\ Len(LastOp(t).arg) > Len(LastOp(t).self.arglist) )
        => /\ LastOp(t).op = "call"
           /\ LastOp(t).body = None
           /\ LastOp(t).ret = Err(BadArgCount(LastOp(t).self.arglist, Len(LastOp(t).arg)))

(* The parameter names of an arglist, in order, and the value a name has   *)
(* in the env the call has made current.                                   *)
ParamNames(arglist) == SelectSeq(arglist, LAMBDA s : ~IsMarker(s))
Distinct(seq) == \A i, j \in DOMAIN seq : seq[i] = seq[j] => i = j
BoundValue(t, sym) == deref_slot(STACKS, heap[current_env(t)].table[sym])

(* An arglist of mandatory names, then maybe &optional and names, then     *)
(* maybe &rest and one name; no name twice.                                *)
HasRest(arglist) == REST \in Range(arglist)
MandatoryOptionalRest(arglist) ==
    /\ KEY \notin Range(arglist)
    /\ Distinct(arglist)
    /\ \A i, j \in DOMAIN arglist :
          (arglist[i] = REST /\ arglist[j] = OPTIONAL) => j < i
    /\ \A i \in DOMAIN arglist : arglist[i] = REST => Len(arglist) = i + 1

(* The arguments were evaluated, there are enough for the mandatory        *)
(* parameters, and the stack has room for one slot per parameter.          *)
FrameFits(h) ==
    /\ h.evaled.ok
    /\ Len(h.arg) >= MandatoryCount(h.self.arglist)
    /\ Len(h.pre.buf) + Len(ParamNames(h.self.arglist)) <= STACK_CAPACITY

(* C14: for an arglist of mandatory, &optional and &rest sections called   *)
(* with at least the mandatory number of arguments, build_env succeeds     *)
(* and the env of the body binds the i-th mandatory or optional parameter  *)
(* to the i-th argument, an optional parameter without an argument to      *)
(* uninitialized, and the &rest parameter to the list of the remaining     *)
(* arguments in order (nil when there are none).                           *)
C14_PositionalBinding ==
    \A t \in Threads :
        ( /\ Len(hist[t]) > 0
          /\ LastOp(t).body = None
          /\ MandatoryOptionalRest(LastOp(t).self.arglist)
          /\ FrameFits(LastOp(t))
          /\ HasRest(LastOp(t).self.arglist)
               \/ Len(LastOp(t).arg) <= Len(ParamNames(LastOp(t).self.arglist)) )
        => LET h     == LastOp(t)
               names == ParamNames(h.self.arglist)
               nPos  == IF HasRest(h.self.arglist) THEN Len(names) - 1 ELSE Len(names)
           IN  /\ h.op = "enter"
               /\ \A i \in 1 .. nPos :
                     BoundValue(t, names[i]) =
                        IF i <= Len(h.arg) THEN h.arg[i] ELSE uninitialized
               /\ HasRest(h.self.arglist) =>
                     BoundValue(t, names[Len(names)]) =
                        Object_from_List(SubSeq(h.arg, nPos + 1, Len(h.arg)))

(* C14 witness: (a &optional b &rest c) called with four arguments; c is   *)
(* bound to the list of the last two.                                      *)
C14_Witness ==
    \E t \in Threads :
        /\ DidOp(t, "enter")
        /\ LastOp(t).self.arglist = << Sym("a"), OPTIONAL, Sym("b"), REST, Sym("c") >>
        /\ Len(LastOp(t).arg) = 4
        /\ BoundValue(t, Sym("a")) = LastOp(t).arg[1]
        /\ BoundValue(t, Sym("c")).tag = "Cons"
        /\ BoundValue(t, Sym("c")).val = << LastOp(t).arg[3], LastOp(t).arg[4] >>

(* An arglist of mandatory names, then &key and at least one name; no      *)
(* name twice.  KeyArgs: what follows the mandatory arguments.             *)
MandatoryThenKey(arglist) ==
    /\ Distinct(arglist)
    /\ { s \in Range(arglist) : IsMarker(s) } = {KEY}
    /\ MandatoryCount(arglist) + 1 < Len(arglist)
KeyArgs(h) == SubSeq(h.arg, MandatoryCount(h.self.arglist) + 1, Len(h.arg))
KeyValuePairs(args) ==
    /\ Len(args) % 2 = 0
    /\ \A i \in DOMAIN args : i % 2 = 1 => args[i].tag = "Symbol"
(* The value that follows the last :p among the keys, if :p is a key. *)
Supplied(args, p) ==
    { args[i + 1] : i \in { j \in DOMAIN args :
          /\ j % 2 = 1
          /\ args[j] = with_colon_in_front(p)
          /\ \A k \in DOMAIN args :
                (k % 2 = 1 /\ args[k] = with_colon_in_front(p)) => k <= j } }

C34_SameBindingsAsCall ==
    \A t \in Threads :
        ( /\ Len(hist[t]) > 0
          /\ LastOp(t).op = "enter"
          /\ should_evaluate_args(LastOp(t).self) )
        => LET h == LastOp(t)
               r == build_env(h.self, t, h.pre, eval_args(h.arg))
               table == HashMap_collect(r.res.val)
           IN  /\ r.res.ok
               /\ DOMAIN heap[current_env(t)].table = DOMAIN table
               /\ \A sym \in DOMAIN table :
                     BoundValue(t, sym) =
                        deref_slot([STACKS EXCEPT ![t] = r.vec], table[sym])

(* C33: at the end of an application, whatever the body returned, the     *)
(* call's env is off the environment stack and its reference count is      *)
(* released before a slot of the call's frame is popped: no step pops a    *)
(* slot while the env that refers to the frame is on the environment       *)
(* stack or in ENV_REF_COUNTS.  Checked under SpecExit.                    *)
InCallOf(t) == tpc[t].pc \in {"body", "exit"}

C33_EnvPoppedBeforeFrame ==
    [][\A t \in Threads :
          (InCallOf(t) /\ Len(STACKS'[t].buf) < Len(STACKS[t].buf)) =>
              /\ CallEnv(t) \notin Range(ENV_STACK[t])
              /\ CallEnv(t) \notin DOMAIN ENV_REF_COUNTS
              /\ ENV_STACK[t] = hist[t][1].penv]_vars

(* C33 witness: a call whose body signalled has returned; its frame had    *)
(* slots, and both stacks are as they were before the call.                *)
C33_Witness ==
    \E t \in Threads :
        /\ hist[t] # << >>
        /\ hist[t][1].op = "call"
        /\ hist[t][1].body = Some(Err(UserError))
        /\ hist[t][1].self.stack_frame_length > 0
        /\ Len(STACKS[t].buf) < Len(hist[t][1].pre.buf) + hist[t][1].self.stack_frame_length
        /\ ENV_STACK[t] = hist[t][1].penv

----------------------------------------------------------------------------
(* Claims about lexical scope, checked under SpecScope. *)

(* The environments from n outward along the parent links, and the places  *)
(* of those that bind sym.                                                 *)
RECURSIVE EnvChain(_, _)
EnvChain(h, n) ==
    IF h[n].parent = None THEN << n >>
    ELSE << n >> \o EnvChain(h, CHOOSE p \in h[n].parent : TRUE)

Binders(h, chain, sym) == { i \in DOMAIN chain : sym \in DOMAIN h[chain[i]].table }

SlotOf(h, n, sym) ==
    IF h[n].variant = "Stack" THEN h[n].table[sym]
    ELSE Reference_from_HeapObject(h[n].table[sym])

(* C16: lookup_symbol(sym) returns the slot of the innermost environment   *)
(* that binds sym on the chain from the thread's current environment along *)
(* the parent links to the global environment; it fails with               *)
(* UnboundSymbolError naming sym exactly when no environment of the chain  *)
(* binds sym; and the lookup changes no environment.                       *)
C16_LookupInnermost ==
    \A t \in Threads :
        DidOp(t, "lookup") =>
            LET h == LastOp(t)
                chain == EnvChain(heap, current_env(t))
                b == Binders(heap, chain, h.arg)
            IN  /\ Last(chain) = GlobalEnv
                /\ IF b = {}
                   THEN h.ret = Err(UnboundSymbolError(h.arg))
                   ELSE \E i \in b :
                           /\ \A j \in b : i <= j
                           /\ h.ret = Ok(SlotOf(heap, chain[i], h.arg))
                /\ heap = h.pheap
                /\ ENV_STACK[t] = h.penv
                /\ STACKS = h.pre

(* C16 witness: a lookup of a symbol that the current environment does not *)
(* bind and an environment further out does, such as y in                  *)
(* (let ((x 1)) y).                                                        *)
C16_Witness ==
    \E t \in Threads :
        /\ DidOp(t, "lookup")
        /\ LET chain == EnvChain(heap, current_env(t))
               b == Binders(heap, chain, LastOp(t).arg)
           IN  /\ 1 \notin b
               /\ Cardinality(b) >= 1
               /\ LastOp(t).ret.ok

(* The innermost open let that binds sym. *)
OpenLets(sym) == { i \in DOMAIN ghost.lets : ghost.lets[i].sym = sym }
InnermostLet(sym) ==
    ghost.lets[CHOOSE i \in OpenLets(sym) : \A j \in OpenLets(sym) : j <= i]

(* C17: inside the body of (let ((x v)) ...), a symbol x that no setf has  *)
(* assigned since evaluates to v, also as the clause of a cond and as the  *)
(* value form of a setf in that body, whatever x is outside; and when the  *)
(* let has returned, x evaluates to what it evaluated to before the let.   *)
C17_LetScoping ==
    \A t \in Threads :
        /\ ( /\ Len(hist[t]) > 0
             /\ LastOp(t).op \in {"eval", "cond", "setf"}
             /\ LastOp(t).op = "setf" => LastOp(t).arg # Sym("z")
             /\ OpenLets(LastOp(t).form) # {}
             /\ LastOp(t).form \notin InnermostLet(LastOp(t).form).assigned )
           => LastOp(t).ret = Ok(InnermostLet(LastOp(t).form).val)
        /\ DidOp(t, "let_exit") =>
              evaluate(STACKS, heap, current_env(t), ghost.closed[1].sym)
                 = ghost.closed[1].outer

(* C39: in the body of a let nested in another let, a symbol that the      *)
(* outer let binds and the inner let does not rebind (and no setf has      *)
(* assigned) resolves to the binding of the outer let, as x does in the    *)
(* inner body of two nested lets the first of which binds x to 3; and      *)
(* in the body of a let the symbols bindings and body, the parameters of   *)
(* the let form itself, are not bound.                                     *)
C39_NestedLetSeesOuter ==
    \A t \in Threads :
        /\ ( /\ Len(hist[t]) > 0
             /\ LastOp(t).op \in {"eval", "lookup"}
             /\ Len(ghost.lets) >= 2
             /\ OpenLets(LastOp(t).arg) # {}
             /\ Last(ghost.lets).sym # LastOp(t).arg
             /\ LastOp(t).arg \notin InnermostLet(LastOp(t).arg).assigned )
           => /\ LastOp(t).ret.ok
              /\ LastOp(t).op = "eval" =>
                    LastOp(t).ret.val = InnermostLet(LastOp(t).arg).val
              /\ LastOp(t).op = "lookup" =>
                    deref(STACKS, heap, LastOp(t).ret.val)
                       = InnermostLet(LastOp(t).arg).val
        /\ (Turn(t) /\ Len(ENV_STACK[t]) > 1 /\ ghost.lets # << >>) =>
              \A p \in { Sym("bindings"), Sym("body") } :
                  ~lookup_symbol(heap, current_env(t), p).ok

----------------------------------------------------------------------------
(* Claims about tagged words and error objects, checked under SpecTag. *)

(* What a catch clause evaluates to when the catch variable holds q. *)
ClauseValue(clause, q) ==
    IF clause.tag = "Symbol" THEN q ELSE Object_from_i32(ToBits(clause.val, 0))

(* C18: when the try form of catch-error signals the Error object at       *)
(* address a, the catch variable is bound to a quiet error value with the  *)
(* pointer to a, the Error object is still the one at a and no other has   *)
(* been allocated, the signaling and the quiet value differ only in the    *)
(* bits of the error tag, and the result is the value of the last catch    *)
(* clause; when the try form signals nothing, the result is its value and  *)
(* no catch clause is evaluated.                                           *)
C18_CatchError ==
    \A t \in Threads :
        DidOp(t, "catch-error") =>
            LET h == LastOp(t)
            IN  IF h.signalled = None
                THEN h.ret = h.tr /\ h.evaluated = 0
                ELSE LET a == CHOOSE x \in h.signalled : TRUE
                     IN  /\ heap[a].kind = "Error"
                         /\ Cardinality({ x \in DOMAIN heap : heap[x].kind = "Error" }) = 1
                         /\ is_of_type(ErrorTag_Signaling, h.tr)
                         /\ h.quiet # None
                         /\ \A q \in h.quiet :
                               /\ is_of_type(ErrorTag_Quiet, q)
                               /\ q \cap (3 .. 47) = into_ptr(a)
                               /\ XOR(q, h.tr) \subseteq mask_bits("ErrorTag")
                               /\ h.env # None
                               /\ \A n \in h.env :
                                     deref(STACKS, heap,
                                           SlotOf(heap, n, Sym("e"))) = q
                               /\ h.evaluated = Len(h.catch)
                               /\ h.catch # << >> =>
                                     h.ret = ClauseValue(Last(h.catch), q)

(* C20: converting to an Object and back is the identity: untag(tag(p)) =  *)
(* p for every pointer p of at most 48 bits with its tag bits clear and    *)
(* every pointer tag, and from_unchecked(Object::from(v)) = v for every    *)
(* bool, every i32 and the uninitialized marker.                           *)
C20_RoundTrip ==
    \A t \in Threads :
        DidOp(t, "decode") => LastOp(t).back = LastOp(t).val

(* C21: no two variants alias: the word an encoder makes, a float that a   *)
(* division makes among them, is of the type it was encoded from and of no *)
(* other, carries the tag of its own encoder alone among the tags below    *)
(* that type, and ExpandedObject::try_from returns the variant it was      *)
(* encoded from.                                                           *)
C21_NoAliasing ==
    \A t \in Threads :
        DidOp(t, "try_from") =>
            LET h == LastOp(t)
            IN  /\ { ty \in ObjectTypes : is_type(ty, h.obj) } = { TypeOf(h.enc) }
                /\ h.enc \in DOMAIN SubTags =>
                       { e \in DOMAIN SubTags : is_of_type(SubTags[e], h.obj) } = { h.enc }
                /\ h.expanded = ExpandedOf(h.enc)

----------------------------------------------------------------------------
(* Claims about namespaces and new functions, checked under SpecThreads and *)
(* SpecDef.                                                                *)

MadeSymRef(t) == DidOp(t, "make_sym_ref")

(* The namespaces other than n are as they were, and so is every box that  *)
(* was there.                                                              *)
OthersUntouched(h, n) ==
    \A a \in DOMAIN h.pheap :
        (IsAlloc(h.pheap, a) /\ a # n) => h.post[a] = h.pheap[a]

(* C23: make_sym_ref(sym) on a heap namespace that binds sym returns the   *)
(* slot it has and changes nothing, and a second call returns the same     *)
(* slot; on a heap namespace that does not bind sym, a parent may, it adds *)
(* to the namespace's own table one new box that holds the uninitialized   *)
(* marker and returns it; no other namespace and no box is changed; on a   *)
(* stack namespace it inserts nothing.                                     *)
C23_MakeSymRefOwnTable ==
    \A t \in Threads :
        MadeSymRef(t) =>
            LET h   == LastOp(t)
                old == h.pheap[h.n]
                new == h.post[h.n]
                again == Namespace_make_sym_ref(
                             [stacks |-> STACKS, heap |-> h.post, chan |-> << >>,
                              counts |-> ENV_REF_COUNTS, envs |-> h.penv], h.n, h.sym)
            IN  /\ OthersUntouched(h, h.n)
                /\ new.parent = old.parent /\ new.variant = old.variant
                /\ IF old.variant = "Stack"
                   THEN ~h.ret.ok /\ new = old
                   ELSE /\ h.ret.ok
                        /\ h.ret.val = Reference_from_HeapObject(new.table[h.sym])
                        /\ again.ret = h.ret /\ again.m.heap = h.post
                        /\ \A s \in DOMAIN old.table :
                              s \in DOMAIN new.table /\ new.table[s] = old.table[s]
                        /\ DOMAIN new.table = DOMAIN old.table \cup {h.sym}
                        /\ IF h.sym \in DOMAIN old.table
                           THEN h.post = h.pheap
                           ELSE /\ ~IsAlloc(h.pheap, new.table[h.sym])
                                /\ h.post[new.table[h.sym]] =
                                      HeapObject_around(uninitialized)

(* The last make_sym_ref was on a heap namespace other than the global one *)
(* that did not bind the symbol while its parent did.                      *)
C23_Witness ==
    \E t \in Threads :
        /\ MadeSymRef(t)
        /\ LastOp(t).n # GlobalEnv
        /\ LastOp(t).pheap[LastOp(t).n].variant = "Heap"
        /\ LastOp(t).sym \notin DOMAIN LastOp(t).pheap[LastOp(t).n].table
        /\ \E p \in LastOp(t).pheap[LastOp(t).n].parent :
              LastOp(t).sym \in DOMAIN LastOp(t).pheap[p].table

(* C28: the env of every function is a heap namespace, and so is every     *)
(* namespace on its chain of parents.                                      *)
C28_CapturedEnvPersistent ==
    \A a \in DOMAIN heap :
        heap[a].kind = "Function" =>
            \A e \in heap[a].env :
                \A i \in DOMAIN EnvChain(heap, e) :
                    heap[EnvChain(heap, e)[i]].variant = "Heap"

----------------------------------------------------------------------------
(* Claims about the start of a pass, checked under SpecPass and            *)
(* SpecPassLive.                                                           *)

(* C25: a caller of gc_pass whose call came while another caller was       *)
(* inside a pass never enters a pass on that call: it does not take the    *)
(* lock, increment the epoch, mark or sweep.                               *)
C25_ExitsIfPassRunning ==
    \A c \in ghost.busyCall : gcpc[c] \notin InPass

RegisteredOverThreshold ==
    \E ct \in allocCt : ct > ghost.reg.threshold

(* C30: the step of the allocator thread that follows a registration       *)
(* which left the registry larger than GC_THRESHOLD makes the collector's  *)
(* park token available; and from such a registration on, the epoch is     *)
(* eventually incremented by a pass that starts after it.                  *)
C30_UnparkStartsPass ==
    /\ [][(RegisteredOverThreshold /\ allocCt' = None) => parkToken']_vars
    /\ \A n \in 0 .. (MaxEpoch - 1) :
          (RegisteredOverThreshold /\ ghost.reg.epoch = n) ~> (THE_GC_MARK > n)

(* C30, amended: that step makes the park token available unless a pass    *)
(* has started since the registration; in both cases the epoch is          *)
(* eventually incremented by a pass that starts after the registration.    *)
C30_UnparkOrPassStarted ==
    /\ [][(RegisteredOverThreshold /\ allocCt' = None) =>
              (parkToken' \/ THE_GC_MARK > ghost.reg.epoch)]_vars
    /\ \A n \in 0 .. (MaxEpoch - 1) :
          (RegisteredOverThreshold /\ ghost.reg.epoch = n) ~> (THE_GC_MARK > n)

(* C30 witness: the unpark that followed a registration arrived while the *)
(* collector thread was inside a pass, and the collector is now inside a   *)
(* later pass.                                                             *)
C30_Witness ==
    /\ ghost.reg.unparked \in InPass
    /\ gcpc[Collector] \in InPass
    /\ gcLocal[Collector].mark > ghost.reg.epoch

(* C31: every object sent with add_to_alloced is registered exactly once   *)
(* and in the order of sending, and leaves the registry only when a sweep  *)
(* deallocates it; with the allocator thread scheduled fairly and passes   *)
(* running to their end, every object sent is registered eventually.       *)
InChannel(a)  == a \in Targets(Range(JUST_ALLOCATED))
NoDuplicates(q) == \A i, j \in 1 .. Len(q) : q[i] = q[j] => i = j

RegistryStep ==
    \/ /\ ALLOCED_OBJECTS' = ALLOCED_OBJECTS
       /\ \/ JUST_ALLOCATED' = JUST_ALLOCATED
          \/ /\ Len(JUST_ALLOCATED') = Len(JUST_ALLOCATED) + 1
             /\ SubSeq(JUST_ALLOCATED', 1, Len(JUST_ALLOCATED)) = JUST_ALLOCATED
    \/ /\ JUST_ALLOCATED # << >>
       /\ ALLOCED_OBJECTS' = Append(ALLOCED_OBJECTS, Head(JUST_ALLOCATED))
       /\ JUST_ALLOCATED' = Tail(JUST_ALLOCATED)
    \/ /\ \E c \in GcCallers : gcpc[c] = "sweep" /\ gcpc'[c] = "finish"
       /\ JUST_ALLOCATED' = JUST_ALLOCATED
       /\ ALLOCED_OBJECTS' =
             SelectSeq(ALLOCED_OBJECTS,
                       LAMBDA o : \E a \in Target(o) : IsAlloc(heap', a))

C31_SentIsRegisteredOnce ==
    /\ [][RegistryStep]_vars
    /\ [](NoDuplicates(JUST_ALLOCATED \o ALLOCED_OBJECTS))
    /\ \A a \in Addr : InChannel(a) ~> (a \in Registered)

(* Two objects sent one after the other are both registered, the first    *)
(* one first.                                                              *)
C31_Witness ==
    /\ Len(ALLOCED_OBJECTS) = 2
    /\ ALLOCED_OBJECTS[1].val < ALLOCED_OBJECTS[2].val
    /\ JUST_ALLOCATED = << >>

----------------------------------------------------------------------------
(* Claims about marking, checked under SpecMark and SpecMarkLive. *)

MarkDone == ghost.root # None /\ ghost.work = << >>

(* C26: when the marking of a root is over, the parent of every            *)
(* environment that was stamped with the mark of the pass carries that     *)
(* mark too, whether the table of the environment is empty or not.         *)
C26_ParentMarked ==
    MarkDone =>
        \A a \in MarkAddr :
            (heap[a].kind = "Namespace" /\ ghost.visits[a] > 0) =>
                \A p \in heap[a].parent :
                    heap[p].gc_marking = gcLocal[Collector].mark

----------------------------------------------------------------------------
(* Claims about the collector, checked under SpecGC. *)

C36_PushedDuringPassKept ==
    [][\A a \in OnStack(STACKS) : IsAlloc(heap, a) => IsAlloc(heap', a)]_vars

(* C2: every registered object that no root and no live handle reached     *)
(* when the pass began has been deallocated once that pass has swept,      *)
(* whatever the epoch counter was when the pass began.                     *)
C2_UnrootedSweptInSamePass ==
    ghost.sweepDone => ghost.garbage \subseteq ghost.swept

(* C3: a handle that allocate has returned, whether still in the caller's  *)
(* hands or already pushed on a stack, never names an object that is       *)
(* still waiting in the allocator's channel.                               *)
C3_RegisteredBeforeReturn ==
    \A o \in Range(JUST_ALLOCATED) :
        Target(o) \cap (HeldAddrs \cup OnStack(STACKS)) = {}

(* C5: at most one caller of gc_pass is between taking the registry lock   *)
(* and releasing it, and that caller owns the lock.                        *)
C5_OnePassAtATime ==
    /\ Cardinality({ c \in GcCallers : gcpc[c] \in InPass }) <= 1
    /\ \A c \in GcCallers : gcpc[c] \in InPass => regLock = c

(* C5 witness: one caller is sweeping while the other waits for the lock.  *)
C5_Witness ==
    \E c, d \in GcCallers : gcpc[c] = "sweep" /\ gcpc[d] = "lock"


(* The registry entries, by position, whose object carries a mark other    *)
(* than m, and the addresses they point at.                                *)
StaleAt(h, registry, m) ==
    { i \in DOMAIN registry : h[registry[i].val].gc_marking # m }

AddrsAt(registry, is) == { registry[i].val : i \in is }

(* The entries of the registry at the positions `is`, in their order. *)
RECURSIVE Keep(_, _, _)
Keep(registry, is, i) ==
    IF i > Len(registry) THEN << >>
    ELSE IF i \in is THEN << registry[i] >> \o Keep(registry, is, i + 1)
    ELSE Keep(registry, is, i + 1)

NoStaleEntry == \A o \in Range(ALLOCED_OBJECTS) : IsAlloc(heap, o.val)

NoObjectTwice ==
    \A i, j \in DOMAIN ALLOCED_OBJECTS :
        ALLOCED_OBJECTS[i].val = ALLOCED_OBJECTS[j].val => i = j

(* C19: the sweep of a pass with mark m leaves in the registry exactly the *)
(* entries whose object carries the mark m, in their order, and turns each *)
(* object whose entry it drops from allocated to free, no address being    *)
(* dropped through two entries, and it leaves every other object as it     *)
(* was; whenever the registry lock is free every registry entry points at  *)
(* an allocated object and no two entries point at the same object; and    *)
(* no step taken while a pass holds the lock makes the registry longer.    *)
C19_SweepRegistry ==
    /\ [](registry_lock_free(regLock) => NoStaleEntry /\ NoObjectTwice)
    /\ [][\A c \in GcCallers :
            (gcpc[c] = "sweep" /\ gcpc'[c] = "finish") =>
                /\ NoStaleEntry /\ NoObjectTwice
                /\ LET stale == StaleAt(heap, ALLOCED_OBJECTS, gcLocal[c].mark)
                       kept  == DOMAIN ALLOCED_OBJECTS \ stale
                   IN  /\ ALLOCED_OBJECTS' = Keep(ALLOCED_OBJECTS, kept, 1)
                       /\ \A a \in AddrsAt(ALLOCED_OBJECTS, stale) :
                              ~IsAlloc(heap', a)
                       /\ \A a \in DOMAIN heap \ AddrsAt(ALLOCED_OBJECTS, stale) :
                              heap'[a] = heap[a]]_vars
    /\ [][(regLock \in GcCallers) =>
            Len(ALLOCED_OBJECTS') <= Len(ALLOCED_OBJECTS)]_vars

(* C19 witness: a sweep has just dropped one entry of the registry and    *)
(* kept another.                                                           *)
C19_Witness ==
    /\ ghost.sweepDone
    /\ ghost.swept # {}
    /\ Len(ALLOCED_OBJECTS) > 0


(* C24: a step that releases the registry lock held by a pass leaves       *)
(* GC_THRESHOLD at twice the number of registry entries that carry the     *)
(* mark of that pass, which are the entries the sweep kept; and no other   *)
(* step changes GC_THRESHOLD.                                              *)
C24_ThresholdTwiceSurvivors ==
    [][/\ \A c \in GcCallers :
            (regLock = c /\ regLock' = NoOwner) =>
                /\ ghost.sweepDone
                /\ ALLOCED_OBJECTS' = ALLOCED_OBJECTS
                /\ GC_THRESHOLD' =
                      2 * Cardinality(DOMAIN ALLOCED_OBJECTS
                                      \ StaleAt(heap, ALLOCED_OBJECTS, gcLocal[c].mark))
       /\ (GC_THRESHOLD' # GC_THRESHOLD) =>
              (regLock \in GcCallers /\ regLock' = NoOwner)]_vars

(* C24 witness: a pass that swept one entry and kept another has released  *)
(* the lock and left the threshold at two.                                 *)
C24_Witness ==
    /\ regLock = NoOwner
    /\ GC_THRESHOLD = 2
    /\ Len(ALLOCED_OBJECTS) = 1
    /\ \E a \in DOMAIN heap : ~IsAlloc(heap, a)
    /\ ghost.allocs = 2
    /\ JUST_ALLOCATED = << >>

(* C29: no step taken while a pass holds the registry lock adds an entry   *)
(* to the registry; a step that deallocates an object is taken by a pass   *)
(* holding the lock and the object is in the registry, which has not       *)
(* changed since the lock was acquired; and an object still in the         *)
(* channel to the allocator thread is allocated.                           *)
C29_NoRegistrationDuringPass ==
    /\ [](\A a \in Targets(Range(JUST_ALLOCATED)) :
              IsAlloc(heap, a) /\ a \notin Registered)
    /\ [][(regLock \in GcCallers) =>
              /\ Range(ALLOCED_OBJECTS') \subseteq Range(ALLOCED_OBJECTS)
              /\ (~ghost.sweepDone /\ ~ghost'.sweepDone) =>
                     ALLOCED_OBJECTS' = ALLOCED_OBJECTS]_vars
    /\ [][\A a \in DOMAIN heap :
              (IsAlloc(heap, a) /\ ~IsAlloc(heap', a)) =>
                  /\ regLock \in GcCallers
                  /\ a \in Registered
                  /\ a \notin Targets(Range(JUST_ALLOCATED))]_vars

(* C29 witness: a sweep has just deallocated an object while another       *)
(* object, allocated but not yet registered, waits in the channel.         *)
C29_Witness ==
    /\ ghost.sweepDone
    /\ ghost.swept # {}
    /\ JUST_ALLOCATED # << >>
    /\ regLock \in GcCallers


----------------------------------------------------------------------------
(* Claims about the symbol table, checked under SpecSym. *)

(* C4: two calls of make_symbol, by any threads, return the same handle    *)
(* exactly when they were given the same name, and no name is allocated    *)
(* more than once.                                                         *)
C4_SymbolsInterned ==
    /\ \A p, q \in ghost.interned : (p.sym = q.sym) <=> (p.s = q.s)
    /\ \A x, y \in ghost.symAllocs : x[1] = y[1] => x = y

(* C4 witness: two threads have interned the same name, a second name has  *)
(* been interned too, and a pass with a later mark has swept since.        *)
C4_Witness ==
    /\ \E p, q, r \in ghost.interned : p.s = q.s /\ p.by # q.by /\ r.s # p.s
    /\ ghost.sweepDone /\ ghost.mark >= 1

(* C32: no pass deallocates an interned symbol: every symbol of            *)
(* SYMBOLS_HEAP, and every handle make_symbol has returned, is an          *)
(* allocated Symbol of its name, whatever the interleaving of make_symbol  *)
(* and the registration with the marking and the sweep of a pass.          *)
C32_InternedSymbolsKept ==
    /\ \A s \in DOMAIN SYMBOLS_HEAP :
          /\ IsAlloc(heap, SYMBOLS_HEAP[s])
          /\ heap[SYMBOLS_HEAP[s]].kind = "Symbol"
          /\ heap[SYMBOLS_HEAP[s]].name = s
    /\ \A p \in ghost.interned : IsAlloc(heap, p.sym) /\ SYMBOLS_HEAP[p.s] = p.sym

(* C32 witness: a pass has swept, and the table holds a symbol that does   *)
(* not carry the mark of the pass: it was interned after the pass had      *)
(* marked the table.                                                       *)
C32_Witness ==
    /\ ghost.sweepDone
    /\ \E s \in DOMAIN SYMBOLS_HEAP :
          /\ IsAlloc(heap, SYMBOLS_HEAP[s])
          /\ heap[SYMBOLS_HEAP[s]].gc_marking # ghost.mark


----------------------------------------------------------------------------
(* Claims about environments, checked under SpecEnv. *)

(* C6: once a pass has finished marking, the env captured by every         *)
(* function that carries the pass's mark carries it too; and no step       *)
(* deallocates the env captured by a function reachable from a root once   *)
(* that env has left every ENV_STACK.                                      *)
C6_CapturedEnvKept ==
    /\ [](\A c \in GcCallers : gcpc[c] = "sweep" =>
            \A a \in DOMAIN heap :
                (heap[a].kind = "Function" /\ heap[a].gc_marking = gcLocal[c].mark) =>
                    \A e \in heap[a].env :
                        IsAlloc(heap, e) /\ heap[e].gc_marking = gcLocal[c].mark)
    /\ [][\A a \in Reachable :
            heap[a].kind = "Function" =>
                \A e \in heap[a].env :
                    ( /\ IsAlloc(heap, e)
                      /\ heap[e].kind = "Namespace"
                      /\ \A t \in Threads : e \notin Range(ENV_STACK[t]) \cup held[t] )
                    => IsAlloc(heap', e)]_vars

(* C7: no step deallocates an environment that is on some thread's         *)
(* ENV_STACK.                                                              *)
C7_EnvInUseKept ==
    [][\A t \in Threads : \A e \in Range(ENV_STACK[t]) :
          IsAlloc(heap, e) => IsAlloc(heap', e)]_vars

----------------------------------------------------------------------------
(* Claims about the default global env, checked under SpecBoot. *)

(* C37: no pass deallocates the default global env or what it binds (the   *)
(* symbols, their slots and the builtin functions in the slots), passes    *)
(* that run before a thread has initialised its ENV_STACK included.        *)
C37_GlobalEnvKept ==
    /\ IsAlloc(heap, GlobalEnv)
    /\ heap[GlobalEnv].kind = "Namespace"
    /\ \A sym \in DOMAIN heap[GlobalEnv].table :
          /\ IsAlloc(heap, sym)
          /\ IsAlloc(heap, heap[GlobalEnv].table[sym])
          /\ \A f \in Target(heap[heap[GlobalEnv].table[sym]].val) : IsAlloc(heap, f)

----------------------------------------------------------------------------
(* Claims about with_env and in_parent_env, checked under SpecParent. *)

(* C35: ENV_REF_COUNTS holds no entry with count zero; the count of an env *)
(* is the number of calls of with_env for it that threads are inside, and  *)
(* for the default global env one more for every thread (each has          *)
(* initialised its ENV_STACK); and when with_env has returned, whatever    *)
(* the body returned, the thread's ENV_STACK is what it was before the     *)
(* call and so is the count of its env, the calls of other threads that    *)
(* began or ended meanwhile apart.                                         *)
C35_RefCountsBalanced ==
    /\ \A e \in DOMAIN ENV_REF_COUNTS : ENV_REF_COUNTS[e] > 0
    /\ \A e \in EnvPool \cup {GlobalEnv} :
          CountOf(ENV_REF_COUNTS, e) =
             Cardinality(WithEnvCalls(e)) + (IF e = GlobalEnv THEN NThreads ELSE 0)
    /\ \A x \in ghost.last :
          x.op = "with_env" =>
              /\ CountOf(ENV_REF_COUNTS, x.env) - Cardinality(WithEnvCalls(x.env))
                    = x.count - x.calls
              /\ ENV_STACK[x.t] = x.penv

(* C38: when in_parent_env has returned, on any path (the body returned a  *)
(* value or an error, or the push of the env on the evaluation stack       *)
(* failed with a stack overflow), the thread's ENV_STACK is what it was    *)
(* before the call and the evaluation stack has its depth of before.       *)
C38_ParentEnvRestored ==
    \A x \in ghost.last :
        x.op = "in_parent_env" =>
            /\ ENV_STACK[x.t] = x.penv
            /\ Len(STACKS[x.t].buf) = Len(x.pre.buf)

----------------------------------------------------------------------------
(* Claims about the locks, checked under SpecLocksLive. *)

(* The threads a waiting thread waits for, and those it waits for through  *)
(* others. *)
LockWaitsFor(p) ==
    IF tpc[p].waiting THEN Blockers(p, Head(tpc[p].code).g) \ {p} ELSE {}

RECURSIVE LockWaitChain(_, _)
LockWaitChain(S, n) ==
    IF n = 0 THEN S
    ELSE LockWaitChain(S \cup UNION { LockWaitsFor(q) : q \in S }, n - 1)

WaitCycle ==
    \E p \in LockProcs : p \in LockWaitChain(LockWaitsFor(p), Cardinality(LockProcs))

(* C40: in no reachable state do threads wait on each other in a cycle     *)
(* over the registry lock, the lock of STACKS, a stack's mutex, the symbol *)
(* table's lock, the lock of the reference counts and an env's table lock, *)
(* and under fair scheduling every thread that waits for a lock gets it.   *)
C40_NeverDeadlocks ==
    /\ [](~WaitCycle)
    /\ \A p \in LockProcs : tpc[p].waiting ~> ~tpc[p].waiting

============================================================================
